---- MODULE Spec2Model ----
(***************************************************************************)
(* The recipe-study survey server: app/main.py (the request handlers and   *)
(* the per-participant step state machine) and app/db.py (the SQLite      *)
(* store), run as one or several worker processes (run.py,                 *)
(* run_production.py).                                                     *)
(*                                                                         *)
(* Time is the wall clock in whole seconds.  A Python dict is a function   *)
(* whose DOMAIN is the dict's key set; None / NULL is the empty sequence   *)
(* and a present value v is <<v>> wherever a field is optional.            *)
(***************************************************************************)
EXTENDS Integers, Sequences, FiniteSets, TLC

(***************************************************************************)
(* Bounds of the model.                                                    *)
(***************************************************************************)
\* worker processes serving requests (run_production.py starts up to 4)
NumWorkers == 2
\* POST /start requests in one run
MaxStarts == 1
\* POST /start requests with one Prolific id in one run
MaxPanelStarts == 3
\* pages rendered for a session in one run
MaxViews == 1
\* requests in one run that are routed to another worker than the first
MaxRerouted == 2
\* width of the random suffix range of a participant id
MaxRandom == 1

\* clock readings at which requests arrive: 1 s, 3600 s and 3601 s apart
ClockReadings == {0, 1, 3601}

Workers == 1..NumWorkers

(***************************************************************************)
(* Constants of app/main.py.                                               *)
(***************************************************************************)
NUM_RECIPES_PER_PARTICIPANT == 5
SESSION_TIMEOUT_MINUTES == 60
MIN_RESPONSE_TIME_SECONDS == 30
MAX_RESPONSE_TIME_MINUTES == 10

\* REQUIRED_STEPS[i + 1] is the Python REQUIRED_STEPS[i]
REQUIRED_STEPS ==
  << "demographics", "recipe_eval_1", "recipe_eval_2", "recipe_eval_3",
     "recipe_eval_4", "recipe_eval_5", "post_survey", "debriefing" >>

STEP_ROUTES ==
  [i \in 0..7 |->
     CASE i = 0 -> "/demographics"
       [] i = 1 -> "/recipe_eval_1"
       [] i = 2 -> "/recipe_eval_2"
       [] i = 3 -> "/recipe_eval_3"
       [] i = 4 -> "/recipe_eval_4"
       [] i = 5 -> "/recipe_eval_5"
       [] i = 6 -> "/post_survey"
       [] i = 7 -> "/debriefing"]

\* f"recipe_eval_{step_id}"
RecipeEvalKey(step_id) ==
  CASE step_id = 1 -> "recipe_eval_1"
    [] step_id = 2 -> "recipe_eval_2"
    [] step_id = 3 -> "recipe_eval_3"
    [] step_id = 4 -> "recipe_eval_4"
    [] step_id = 5 -> "recipe_eval_5"

PROLIFIC_COMPLETION_URL == "https://app.prolific.co/submissions/complete"

(***************************************************************************)
(* Python values.                                                          *)
(***************************************************************************)
None == << >>
Some(v) == << v >>

\* d[k] = v on a dict
Put(d, k, v) == [x \in (DOMAIN d) \cup {k} |-> IF x = k THEN v ELSE d[x]]

\* the empty dict
EmptyDict == [x \in {} |-> None]

VARIABLES
  now,            \* the wall clock, in seconds
  participants,   \* participants[w]: the in-memory dict of worker w
  db,             \* the SQLite database shared by the workers
  started,        \* how many POST /start requests were served
  viewed,         \* how many pages were rendered for a session
  rerouted        \* how many requests another worker than the first served

vars == << now, participants, db, started, viewed, rerouted >>

(***************************************************************************)
(* Inputs of the requests.                                                 *)
(***************************************************************************)
\* the session cookie of a request that carries no participant_id
NoSession == << >>

\* POST /demographics form fields (age, gender, education)
DemographicsForms ==
  { [age |-> Some("25"), gender |-> Some("female"), education |-> Some("bachelor")],
    [age |-> Some("40"), gender |-> Some("male"), education |-> Some("phd")] }

\* POST /recipe_eval_{step_id} form fields.  healthiness_rating stands for
\* the ratings whose form name is also a column of recipe_evaluations
\* (healthiness_rating, tastiness_rating, feasibility_rating, would_make);
\* completeness_rating for those that are no column (completeness_rating,
\* ingredients_complexity, instructions_complexity, ingredients_correctness,
\* instructions_correctness, nutrition_correctness).  comments and
\* attention_check_recipe are Form(None): None when the field is not sent.
\* The forms differ in the attention check: right, wrong, not sent.
EvalForms ==
  { [recipe_name |-> Some("soup"), completeness_rating |-> Some(5),
     healthiness_rating |-> Some(4), comments |-> None,
     attention_check_recipe |-> a] : a \in { Some(3), Some(4), None } }

\* POST /post_survey form fields.  cooking_skills stands for the required
\* scalar fields; attention_check_post is Form(...), a required field too,
\* and is None in a request that does not send it.
PostSurveyForms ==
  { [cooking_skills |-> Some(3), recipe_factors |-> << "taste" >>,
     comments |-> None, attention_check_post |-> Some("gemini")],
    [cooking_skills |-> Some(1), recipe_factors |-> << >>,
     comments |-> Some("fine"), attention_check_post |-> Some("chatgpt")],
    [cooking_skills |-> Some(3), recipe_factors |-> << "taste" >>,
     comments |-> None, attention_check_post |-> None] }

\* the post-survey forms that pass FastAPI's validation and reach the
\* handler's body
ValidPostSurveyForms == { f \in PostSurveyForms : f.attention_check_post # None }

\* POST /start form fields (prolific_pid, study_id, session_id; Form(None))
StartForms ==
  { [prolific_pid |-> None, study_id |-> None, session_id |-> None],
    [prolific_pid |-> Some("PID1"), study_id |-> Some("S1"),
     session_id |-> Some("X1")] }

\* random.randint(1000, 9999), cut to MaxRandom values
RandomSuffixes == 1000..(1000 + MaxRandom - 1)

\* the recipes create_new_participant can draw (indices into recipes_df)
RecipeSelections == { << 40, 12, 7, 33, 21 >> }

\* recipes_df.iloc[recipe_index]["Category"]
RecipeCategory(recipe_index) ==
  IF recipe_index < 20 THEN Some("vegan") ELSE Some("dessert")

\* step_id path parameters tried on /recipe_eval_{step_id}
StepIds == 0..7

\* outcome of the file and database writes of save_participant_responses
IoOutcomes == { "ok", "file_error", "db_error" }

(***************************************************************************)
(* app/main.py: step validation, expiry, response time, attention checks.  *)
(***************************************************************************)
\* a guard that also admits the step after the current one
validate_step_access_skipping(participant, requested_step) ==
  IF participant = None
  THEN requested_step = 0
  ELSE requested_step <= participant[1].current_step + 1

\* a guard that admits every step of a known participant
validate_step_access_open(participant, requested_step) ==
  IF participant = None
  THEN requested_step = 0
  ELSE TRUE

\* a guard that admits the debriefing at every step of a known participant
validate_step_access_final(participant, requested_step) ==
  IF participant = None
  THEN requested_step = 0
  ELSE requested_step <= participant[1].current_step \/ requested_step = 7

\* participant is None or Some(p)
validate_step_access(participant, requested_step) ==
  IF participant = None
  THEN requested_step = 0
  ELSE requested_step <= participant[1].current_step

get_correct_step_redirect(participant) ==
  IF participant = None THEN "/demographics"
  ELSE IF participant[1].completed THEN "/debriefing"
  ELSE IF participant[1].current_step >= 8 THEN "/debriefing"
  ELSE IF participant[1].current_step \in DOMAIN STEP_ROUTES
       THEN STEP_ROUTES[participant[1].current_step]
       ELSE "/demographics"

\* an expiry test with twice the timeout
is_session_expired_late(participant, t) ==
  IF participant = None \/ participant[1].last_activity = None
  THEN FALSE
  ELSE t - participant[1].last_activity[1] > 2 * SESSION_TIMEOUT_MINUTES * 60

\* last_activity is None or Some(t); t is the clock reading
is_session_expired(participant, t) ==
  IF participant = None \/ participant[1].last_activity = None
  THEN FALSE
  ELSE t - participant[1].last_activity[1] > SESSION_TIMEOUT_MINUTES * 60

update_participant_activity(p, t) ==
  [p EXCEPT !.last_activity = Some(t)]

IsRecipeEval(step_type) ==
  step_type \in { RecipeEvalKey(k) : k \in 1..NUM_RECIPES_PER_PARTICIPANT }

\* validate_response_time with the lower threshold included in "too fast"
validate_response_time_inclusive(start_time, step_type, t) ==
  LET time_spent == t - start_time IN
  IF IsRecipeEval(step_type) /\ time_spent <= MIN_RESPONSE_TIME_SECONDS
  THEN [valid |-> FALSE, time_spent_seconds |-> Some(time_spent),
        warning |-> Some("Response too fast")]
  ELSE IF time_spent > MAX_RESPONSE_TIME_MINUTES * 60
  THEN [valid |-> TRUE, time_spent_seconds |-> Some(time_spent),
        warning |-> Some("Response very slow")]
  ELSE [valid |-> TRUE, time_spent_seconds |-> Some(time_spent),
        warning |-> None]

\* start_time is a clock reading, t the clock at the submission
validate_response_time(start_time, step_type, t) ==
  LET time_spent == t - start_time IN
  IF IsRecipeEval(step_type) /\ time_spent < MIN_RESPONSE_TIME_SECONDS
  THEN [valid |-> FALSE, time_spent_seconds |-> Some(time_spent),
        warning |-> Some("Response too fast")]
  ELSE IF time_spent > MAX_RESPONSE_TIME_MINUTES * 60
  THEN [valid |-> TRUE, time_spent_seconds |-> Some(time_spent),
        warning |-> Some("Response very slow")]
  ELSE [valid |-> TRUE, time_spent_seconds |-> Some(time_spent),
        warning |-> None]

\* responses.get(key, {})
GetDict(responses, key) ==
  IF key \in DOMAIN responses THEN responses[key] ELSE EmptyDict

validate_attention_checks(p) ==
  LET recipe_eval_3 == GetDict(p.responses, "recipe_eval_3")
      post_survey == GetDict(p.responses, "post_survey")
      recipe_presented == "attention_check_recipe" \in DOMAIN recipe_eval_3
      recipe_passed == recipe_eval_3["attention_check_recipe"] = Some(3)
      post_presented == "attention_check_post" \in DOMAIN post_survey
      post_passed == post_survey["attention_check_post"] = Some("gemini")
  IN [recipe_attention_check_passed |->
        IF recipe_presented THEN Some(recipe_passed) ELSE None,
      post_survey_attention_check_passed |->
        IF post_presented THEN Some(post_passed) ELSE None,
      overall_passed |->
        /\ (recipe_presented => recipe_passed)
        /\ (post_presented => post_passed)]

(***************************************************************************)
(* app/db.py.  The database is a record of three tables: participants is   *)
(* keyed by participant_id (its PRIMARY KEY); recipe_evaluations and       *)
(* post_survey have an AUTOINCREMENT id only, so they are sequences of     *)
(* rows in insertion order.  The column time_spent_minutes, which no       *)
(* handler reads, is left out.                                             *)
(***************************************************************************)
\* d.get(k)
DictGet(d, k) == IF k \in DOMAIN d THEN d[k] ELSE None

\* d.get("comments", "")
GetComments(d) == IF "comments" \in DOMAIN d THEN d["comments"] ELSE Some("")

\* the database after the module import of app/db.py
EmptyDb ==
  [participants |-> EmptyDict, recipe_evaluations |-> << >>, post_survey |-> << >>]

\* the participants row save_participant writes; t is datetime.now()
ParticipantRow(participant_data, t) ==
  LET responses == participant_data.responses
      demographics == GetDict(responses, "demographics")
      prolific_info == GetDict(responses, "prolific_info")
  IN [prolific_pid |-> DictGet(prolific_info, "prolific_pid"),
      study_id |-> DictGet(prolific_info, "study_id"),
      session_id |-> DictGet(prolific_info, "session_id"),
      start_time |-> participant_data.start_time,
      completed_time |-> DictGet(responses, "completed_time"),
      completed |-> participant_data.completed,
      current_step |-> participant_data.current_step,
      step_completed_at |-> participant_data.step_completed_at,
      last_activity_at |-> Some(t),
      age |-> DictGet(demographics, "age"),
      gender |-> DictGet(demographics, "gender"),
      education |-> DictGet(demographics, "education")]

\* the recipe_evaluations row of evaluation i.  The form's
\* completeness_rating is read under the column's name
\* completeness_info_rating, a key eval_data never has.
EvaluationRow(participant_id, i, eval_data) ==
  [participant_id |-> participant_id,
   eval_number |-> i,
   recipe_id |-> DictGet(eval_data, "recipe_id"),
   recipe_name |-> DictGet(eval_data, "recipe_name"),
   recipe_category |-> DictGet(eval_data, "recipe_category"),
   completeness_info_rating |-> DictGet(eval_data, "completeness_info_rating"),
   healthiness_rating |-> DictGet(eval_data, "healthiness_rating"),
   comments |-> GetComments(eval_data),
   attention_check_recipe |-> DictGet(eval_data, "attention_check_recipe")]

\* an INSERT whether or not the row exists
UpsertRows_inserting(table, row, found) == Append(table, row)

\* SELECT id ... fetchone(), then UPDATE ... WHERE or INSERT; found is the
\* set of places of the rows the WHERE clause selects
UpsertRows(table, row, found) ==
  IF found # {}
  THEN [k \in DOMAIN table |-> IF k \in found THEN row ELSE table[k]]
  ELSE Append(table, row)

\* for i in range(1, 6): the evaluations from i on
RECURSIVE SaveEvaluations(_, _, _, _)
SaveEvaluations(table, participant_id, responses, i) ==
  IF i > 5 THEN table
  ELSE IF RecipeEvalKey(i) \in DOMAIN responses
  THEN SaveEvaluations(
         UpsertRows(table,
                    EvaluationRow(participant_id, i, responses[RecipeEvalKey(i)]),
                    { k \in DOMAIN table :
                        /\ table[k].participant_id = participant_id
                        /\ table[k].eval_number = i }),
         participant_id, responses, i + 1)
  ELSE SaveEvaluations(table, participant_id, responses, i + 1)

\* json.dumps(recipe_factors) is the list itself here: json.loads undoes it
PostSurveyRow(participant_id, post_data) ==
  [participant_id |-> participant_id,
   cooking_skills |-> DictGet(post_data, "cooking_skills"),
   recipe_factors |-> IF "recipe_factors" \in DOMAIN post_data
                      THEN post_data["recipe_factors"] ELSE << >>,
   comments |-> GetComments(post_data),
   attention_check_post |-> DictGet(post_data, "attention_check_post")]

SavePostSurvey(table, participant_id, responses) ==
  IF "post_survey" \in DOMAIN responses
  THEN UpsertRows(table, PostSurveyRow(participant_id, responses["post_survey"]),
                  { k \in DOMAIN table : table[k].participant_id = participant_id })
  ELSE table

\* save_participant on database d at time t, committed
save_participant(d, participant_data, t) ==
  [participants |->
     Put(d.participants, participant_data.id, ParticipantRow(participant_data, t)),
   recipe_evaluations |->
     SaveEvaluations(d.recipe_evaluations, participant_data.id,
                     participant_data.responses, 1),
   post_survey |->
     SavePostSurvey(d.post_survey, participant_data.id, participant_data.responses)]

\* get_participant_data: None, or Some of the three query results
get_participant_data(d, participant_id) ==
  IF participant_id \notin DOMAIN d.participants THEN None
  ELSE LET Of(i) == SelectSeq(d.recipe_evaluations,
                      LAMBDA r : r.participant_id = participant_id /\ r.eval_number = i)
           mine == SelectSeq(d.post_survey, LAMBDA r : r.participant_id = participant_id)
       IN Some([participant |-> d.participants[participant_id],
                \* ORDER BY eval_number
                recipe_evaluations |-> Of(1) \o Of(2) \o Of(3) \o Of(4) \o Of(5),
                \* fetchone()
                post_survey |-> IF mine = << >> THEN None ELSE Some(mine[1])])

\* a participant id is << second of creation, random suffix >>; this is the
\* order of the strings p_<YYYYmmddHHMMSS>_<suffix>
IdBefore(a, b) == a[1] < b[1] \/ (a[1] = b[1] /\ a[2] < b[2])

\* the ids of set S as a sequence ORDER BY start_time
RECURSIVE OrderByStartTime(_, _)
OrderByStartTime(d, S) ==
  IF S = {} THEN << >>
  ELSE LET Before(a, b) ==
             \/ d.participants[a].start_time[1] < d.participants[b].start_time[1]
             \/ /\ d.participants[a].start_time = d.participants[b].start_time
                /\ IdBefore(a, b)
           first == CHOOSE a \in S : \A b \in S \ {a} : Before(a, b)
       IN << first >> \o OrderByStartTime(d, S \ {first})

\* check_prolific_duplicate: prolific_pid is None or Some(pid)
check_prolific_duplicate(d, prolific_pid) ==
  IF prolific_pid = None THEN << >>
  ELSE LET ids == OrderByStartTime(d,
                    { i \in DOMAIN d.participants :
                        d.participants[i].prolific_pid = prolific_pid })
       IN [k \in DOMAIN ids |->
             [participant_id |-> ids[k],
              start_time |-> d.participants[ids[k]].start_time,
              completed |-> d.participants[ids[k]].completed,
              current_step |-> d.participants[ids[k]].current_step,
              last_activity_at |-> d.participants[ids[k]].last_activity_at]]

\* get_quality_metrics: counts over the three tables; fast_responses and
\* slow_responses keep the 0 they are initialised with, no query sets them
get_quality_metrics(d) ==
  LET rows == d.participants
      pids == { rows[i].prolific_pid : i \in DOMAIN rows } \ {None}
  IN [total_participants |-> Cardinality(DOMAIN rows),
      completed_participants |-> Cardinality({ i \in DOMAIN rows : rows[i].completed }),
      prolific_participants |->
        Cardinality({ i \in DOMAIN rows : rows[i].prolific_pid # None }),
      attention_check_failures |->
        Cardinality({ k \in DOMAIN d.recipe_evaluations :
                        /\ d.recipe_evaluations[k].attention_check_recipe # None
                        /\ d.recipe_evaluations[k].attention_check_recipe # Some(3) })
        + Cardinality({ k \in DOMAIN d.post_survey :
                          /\ d.post_survey[k].attention_check_post # None
                          /\ d.post_survey[k].attention_check_post # Some("gemini") }),
      duplicate_prolific_ids |->
        Cardinality({ pid \in pids :
                        Cardinality({ i \in DOMAIN rows : rows[i].prolific_pid = pid }) > 1 }),
      fast_responses |-> 0,
      slow_responses |-> 0]

\* app/main.py detect_session_manipulation
detect_session_manipulation(d, prolific_pid) ==
  LET duplicates == check_prolific_duplicate(d, prolific_pid) IN
  IF prolific_pid # None /\ Len(duplicates) > 1
  THEN [multiple_sessions_detected |-> TRUE, session_details |-> duplicates,
        warning |-> Some("Multiple sessions detected")]
  ELSE [multiple_sessions_detected |-> FALSE, session_details |-> << >>,
        warning |-> None]

(***************************************************************************)
(* app/main.py: the session dependency, participant creation, saving.      *)
(***************************************************************************)
\* the Participant model
Participant(id, selected_recipes, current_step, responses, completed, start_time, last_activity, step_times) ==
  [id |-> id, selected_recipes |-> selected_recipes, current_step |-> current_step,
   responses |-> responses, completed |-> completed, start_time |-> start_time,
   last_activity |-> last_activity, step_times |-> step_times]

\* the response of a recipe evaluation rebuilt from its database row: the
\* keys completeness_rating etc. are no columns of the row (None), and
\* attention_check_recipe and response_time_seconds are not copied
RebuiltEvaluation(eval_data) ==
  [recipe_id |-> eval_data.recipe_id,
   recipe_name |-> eval_data.recipe_name,
   recipe_category |-> eval_data.recipe_category,
   completeness_rating |-> None,
   healthiness_rating |-> eval_data.healthiness_rating,
   comments |-> eval_data.comments]

\* for eval_data in evaluations: the responses after the loop
RECURSIVE RebuiltResponses(_, _)
RebuiltResponses(responses, evaluations) ==
  IF evaluations = << >> THEN responses
  ELSE RebuiltResponses(
         Put(responses, RecipeEvalKey(Head(evaluations).eval_number),
             RebuiltEvaluation(Head(evaluations))),
         Tail(evaluations))

\* for eval_data in evaluations: selected_recipes after the loop
RECURSIVE RebuiltRecipes(_)
RebuiltRecipes(evaluations) ==
  IF evaluations = << >> THEN << >>
  ELSE (IF Head(evaluations).recipe_id # None
        THEN << Head(evaluations).recipe_id[1] >> ELSE << >>)
       \o RebuiltRecipes(Tail(evaluations))

\* the Participant get_participant_from_session builds from db_data
RebuiltParticipant(participant_id, db_data) ==
  LET participant_row == db_data.participant
      r0 == Put(EmptyDict, "demographics",
                [age |-> participant_row.age, gender |-> participant_row.gender,
                 education |-> participant_row.education])
      r1 == RebuiltResponses(r0, db_data.recipe_evaluations)
      r2 == IF db_data.post_survey # None
            THEN Put(r1, "post_survey",
                     [cooking_skills |-> db_data.post_survey[1].cooking_skills,
                      recipe_factors |-> db_data.post_survey[1].recipe_factors,
                      comments |-> db_data.post_survey[1].comments])
            ELSE r1
      r3 == IF participant_row.completed_time # None
            THEN Put(r2, "completed_time", participant_row.completed_time)
            ELSE r2
  IN Participant(participant_id, RebuiltRecipes(db_data.recipe_evaluations),
                 participant_row.current_step, r3, participant_row.completed,
                 participant_row.start_time, participant_row.last_activity_at,
                 EmptyDict)

\* a session dependency that refreshes a rebuilt record before it checks
\* its expiry
get_participant_from_session_refreshing(memory, d, sid, t) ==
  IF sid = NoSession
  THEN [participant |-> None, memory |-> memory, cleared |-> FALSE]
  ELSE IF sid \in DOMAIN memory
  THEN IF is_session_expired(Some(memory[sid]), t)
       THEN [participant |-> None, memory |-> memory, cleared |-> TRUE]
       ELSE LET p == update_participant_activity(memory[sid], t)
            IN [participant |-> Some(p), memory |-> Put(memory, sid, p),
                cleared |-> FALSE]
  ELSE LET db_data == get_participant_data(d, sid) IN
       IF db_data = None
       THEN [participant |-> None, memory |-> memory, cleared |-> FALSE]
       ELSE LET rebuilt == update_participant_activity(
                             RebuiltParticipant(sid, db_data[1]), t) IN
            IF is_session_expired(Some(rebuilt), t)
            THEN [participant |-> None, memory |-> memory, cleared |-> FALSE]
            ELSE LET p == update_participant_activity(rebuilt, t)
                 IN [participant |-> Some(p), memory |-> Put(memory, sid, p),
                     cleared |-> FALSE]

\* get_participant_from_session of a worker whose dict is memory, with
\* database d, for session cookie sid at time t: the participant handed to
\* the handler (None or Some), the worker's dict afterwards, and whether
\* request.session was cleared
get_participant_from_session(memory, d, sid, t) ==
  IF sid = NoSession
  THEN [participant |-> None, memory |-> memory, cleared |-> FALSE]
  ELSE IF sid \in DOMAIN memory
  THEN IF is_session_expired(Some(memory[sid]), t)
       THEN [participant |-> None, memory |-> memory, cleared |-> TRUE]
       ELSE LET p == update_participant_activity(memory[sid], t)
            IN [participant |-> Some(p), memory |-> Put(memory, sid, p),
                cleared |-> FALSE]
  ELSE LET db_data == get_participant_data(d, sid) IN
       IF db_data = None
       THEN [participant |-> None, memory |-> memory, cleared |-> FALSE]
       ELSE LET rebuilt == RebuiltParticipant(sid, db_data[1]) IN
            IF is_session_expired(Some(rebuilt), t)
            THEN [participant |-> None, memory |-> memory, cleared |-> FALSE]
            ELSE LET p == update_participant_activity(rebuilt, t)
                 IN [participant |-> Some(p), memory |-> Put(memory, sid, p),
                     cleared |-> FALSE]

\* create_new_participant at time t, with random suffix and recipe draw
create_new_participant(t, suffix, selected_recipes) ==
  Participant(<< t, suffix >>, selected_recipes, 0, EmptyDict, FALSE,
              Some(t), Some(t), EmptyDict)

\* save_participant_responses: the database afterwards.  The JSON and CSV
\* files it writes first are read by no handler and are not modelled; an
\* error writing them skips the database, and a database error rolls back.
save_participant_responses(p, d, t, io) ==
  IF io = "ok"
  THEN save_participant(d,
         [id |-> p.id, start_time |-> p.start_time, completed |-> p.completed,
          current_step |-> p.current_step, step_completed_at |-> Some(t),
          last_activity_at |-> p.last_activity, responses |-> p.responses,
          selected_recipes |-> p.selected_recipes], t)
  ELSE d

(***************************************************************************)
(* The request handlers.  Each computes, from the worker's dict, the       *)
(* database and the request, the worker's dict and the database afterwards *)
(* and the response; Serve applies it.                                     *)
(***************************************************************************)
RedirectResponse(url) == [status |-> 303, body |-> url]
TemplateResponse(name) == [status |-> 200, body |-> name]
\* HTTPException(404), a request FastAPI finds invalid (422), or an
\* exception no handler catches (500)
ErrorResponse(code) == [status |-> code, body |-> "error"]

Outcome(memory, d, resp) == [memory |-> memory, db |-> d, response |-> resp]

\* GET /demographics
demographics_form_result(memory, d, sid, t) ==
  LET s == get_participant_from_session(memory, d, sid, t) IN
  IF ~validate_step_access(s.participant, 0)
  THEN Outcome(s.memory, d, RedirectResponse(get_correct_step_redirect(s.participant)))
  ELSE IF s.participant # None
  THEN LET p == s.participant[1] IN
       Outcome(Put(s.memory, p.id,
                   [p EXCEPT !.step_times = Put(@, "demographics", t)]),
               d, TemplateResponse("demographics.html"))
  ELSE Outcome(s.memory, d, TemplateResponse("demographics.html"))

\* POST /demographics
submit_demographics_result(memory, d, sid, t, form, io) ==
  LET s == get_participant_from_session(memory, d, sid, t) IN
  IF s.participant = None
  THEN Outcome(s.memory, d, RedirectResponse("/"))
  ELSE LET p == s.participant[1]
           q == [p EXCEPT !.responses = Put(@, "demographics",
                                            [age |-> form.age, gender |-> form.gender,
                                             education |-> form.education]),
                          !.current_step = 1]
       IN Outcome(Put(s.memory, q.id, q), save_participant_responses(q, d, t, io),
                  RedirectResponse("/recipe_eval_1"))

\* GET /recipe_eval_{step_id}
recipe_evaluation_result(memory, d, sid, t, step_id) ==
  LET s == get_participant_from_session(memory, d, sid, t) IN
  IF s.participant = None
  THEN Outcome(s.memory, d, RedirectResponse("/"))
  ELSE IF ~validate_step_access(s.participant, step_id)
  THEN Outcome(s.memory, d, RedirectResponse(get_correct_step_redirect(s.participant)))
  ELSE IF step_id < 1 \/ step_id > NUM_RECIPES_PER_PARTICIPANT
  THEN Outcome(s.memory, d, ErrorResponse(404))
  ELSE LET p == s.participant[1]
           q == [p EXCEPT !.step_times = Put(@, RecipeEvalKey(step_id), t)]
       IN \* participant.selected_recipes[step_id - 1]
          IF step_id > Len(q.selected_recipes)
          THEN Outcome(Put(s.memory, q.id, q), d, ErrorResponse(500))
          ELSE Outcome(Put(s.memory, q.id, q), d,
                       TemplateResponse("recipe_evaluation.html"))

\* a submit handler's time validation with the start time taken as given,
\* recorded or not: validate_response_time(None, ...) fails in
\* fromisoformat and returns the warning of its except branch
TimeValidationUnguarded(p, step_type, t) ==
  IF step_type \in DOMAIN p.step_times
  THEN Some(validate_response_time(p.step_times[step_type], step_type, t))
  ELSE Some([valid |-> TRUE, time_spent_seconds |-> None,
             warning |-> Some("Could not validate response time")])

\* a submit handler's time validation: step_times.get(step_type), and
\* validate_response_time only "if step_start_time"; None when it is skipped
TimeValidation(p, step_type, t) ==
  IF step_type \in DOMAIN p.step_times
  THEN Some(validate_response_time(p.step_times[step_type], step_type, t))
  ELSE None

\* the eval_data submit_recipe_evaluation stores
EvalData(p, step_id, t, form) ==
  LET key == RecipeEvalKey(step_id)
      recipe_index == p.selected_recipes[step_id]
      fields == [recipe_id |-> Some(recipe_index),
                 recipe_name |-> form.recipe_name,
                 recipe_category |-> RecipeCategory(recipe_index),
                 completeness_rating |-> form.completeness_rating,
                 healthiness_rating |-> form.healthiness_rating,
                 comments |-> IF form.comments = None THEN Some("") ELSE form.comments]
      time_validation == TimeValidation(p, key, t)
      timed == IF time_validation # None
               THEN Put(fields, "response_time_seconds",
                        time_validation[1].time_spent_seconds)
               ELSE fields
  IN IF step_id = 3
     THEN Put(timed, "attention_check_recipe", form.attention_check_recipe)
     ELSE timed

\* a POST /recipe_eval_{step_id} that lets the error of a failed write
\* through: nothing is kept and the client gets a 500
submit_recipe_evaluation_result_raising(memory, d, sid, t, step_id, form, io) ==
  LET s == get_participant_from_session(memory, d, sid, t) IN
  IF s.participant = None
  THEN Outcome(s.memory, d, RedirectResponse("/"))
  ELSE IF ~validate_step_access(s.participant, step_id)
  THEN Outcome(s.memory, d, RedirectResponse(get_correct_step_redirect(s.participant)))
  ELSE IF step_id < 1 \/ step_id > NUM_RECIPES_PER_PARTICIPANT
  THEN Outcome(s.memory, d, ErrorResponse(404))
  ELSE LET p == s.participant[1] IN
       \* participant.selected_recipes[step_id - 1]
       IF step_id > Len(p.selected_recipes)
       THEN Outcome(s.memory, d, ErrorResponse(500))
       ELSE LET q == [p EXCEPT !.responses = Put(@, RecipeEvalKey(step_id),
                                                 EvalData(p, step_id, t, form)),
                               !.current_step = IF step_id >= @ THEN step_id + 1 ELSE @]
            IN IF io # "ok" THEN Outcome(s.memory, d, ErrorResponse(500)) ELSE
               Outcome(Put(s.memory, q.id, q), save_participant_responses(q, d, t, io),
                       \* f"/recipe_eval_{step_id + 1}"
                       RedirectResponse(IF step_id < NUM_RECIPES_PER_PARTICIPANT
                                        THEN "/" \o RecipeEvalKey(step_id + 1)
                                        ELSE "/post_survey"))

\* POST /recipe_eval_{step_id}
submit_recipe_evaluation_result(memory, d, sid, t, step_id, form, io) ==
  LET s == get_participant_from_session(memory, d, sid, t) IN
  IF s.participant = None
  THEN Outcome(s.memory, d, RedirectResponse("/"))
  ELSE IF ~validate_step_access(s.participant, step_id)
  THEN Outcome(s.memory, d, RedirectResponse(get_correct_step_redirect(s.participant)))
  ELSE IF step_id < 1 \/ step_id > NUM_RECIPES_PER_PARTICIPANT
  THEN Outcome(s.memory, d, ErrorResponse(404))
  ELSE LET p == s.participant[1] IN
       \* participant.selected_recipes[step_id - 1]
       IF step_id > Len(p.selected_recipes)
       THEN Outcome(s.memory, d, ErrorResponse(500))
       ELSE LET q == [p EXCEPT !.responses = Put(@, RecipeEvalKey(step_id),
                                                 EvalData(p, step_id, t, form)),
                               !.current_step = IF step_id >= @ THEN step_id + 1 ELSE @]
            IN Outcome(Put(s.memory, q.id, q), save_participant_responses(q, d, t, io),
                       \* f"/recipe_eval_{step_id + 1}"
                       RedirectResponse(IF step_id < NUM_RECIPES_PER_PARTICIPANT
                                        THEN "/" \o RecipeEvalKey(step_id + 1)
                                        ELSE "/post_survey"))

\* GET /post_survey
post_survey_form_result(memory, d, sid, t) ==
  LET s == get_participant_from_session(memory, d, sid, t) IN
  IF s.participant = None
  THEN Outcome(s.memory, d, RedirectResponse("/"))
  ELSE IF ~validate_step_access(s.participant, 6)
  THEN Outcome(s.memory, d, RedirectResponse(get_correct_step_redirect(s.participant)))
  ELSE LET p == s.participant[1] IN
       Outcome(Put(s.memory, p.id, [p EXCEPT !.step_times = Put(@, "post_survey", t)]),
               d, TemplateResponse("post_survey.html"))

\* a POST /post_survey that also completes the session
submit_post_survey_result_completing(memory, d, sid, t, form, io) ==
  LET s == get_participant_from_session(memory, d, sid, t) IN
  \* a required form field is missing: the dependency has run, FastAPI
  \* answers 422 and the handler's body does not run
  IF form.attention_check_post = None
  THEN Outcome(s.memory, d, ErrorResponse(422))
  ELSE IF s.participant = None
  THEN Outcome(s.memory, d, RedirectResponse("/"))
  ELSE IF ~validate_step_access(s.participant, 6)
  THEN Outcome(s.memory, d, RedirectResponse(get_correct_step_redirect(s.participant)))
  ELSE LET p == s.participant[1]
           q == [p EXCEPT !.responses =
                            Put(@, "post_survey",
                                [cooking_skills |-> form.cooking_skills,
                                 recipe_factors |-> form.recipe_factors,
                                 comments |-> IF form.comments = None
                                              THEN Some("") ELSE form.comments,
                                 attention_check_post |-> form.attention_check_post]),
                          !.current_step = 7,
                          !.completed = TRUE]
       IN Outcome(Put(s.memory, q.id, q), save_participant_responses(q, d, t, io),
                  RedirectResponse("/debriefing"))

\* a POST /post_survey that moves the session past the last step
submit_post_survey_result_past(memory, d, sid, t, form, io) ==
  LET s == get_participant_from_session(memory, d, sid, t) IN
  \* a required form field is missing: the dependency has run, FastAPI
  \* answers 422 and the handler's body does not run
  IF form.attention_check_post = None
  THEN Outcome(s.memory, d, ErrorResponse(422))
  ELSE IF s.participant = None
  THEN Outcome(s.memory, d, RedirectResponse("/"))
  ELSE IF ~validate_step_access(s.participant, 6)
  THEN Outcome(s.memory, d, RedirectResponse(get_correct_step_redirect(s.participant)))
  ELSE LET p == s.participant[1]
           q == [p EXCEPT !.responses =
                            Put(@, "post_survey",
                                [cooking_skills |-> form.cooking_skills,
                                 recipe_factors |-> form.recipe_factors,
                                 comments |-> IF form.comments = None
                                              THEN Some("") ELSE form.comments,
                                 attention_check_post |-> form.attention_check_post]),
                          !.current_step = 8]
       IN Outcome(Put(s.memory, q.id, q), save_participant_responses(q, d, t, io),
                  RedirectResponse("/debriefing"))

\* POST /post_survey
submit_post_survey_result(memory, d, sid, t, form, io) ==
  LET s == get_participant_from_session(memory, d, sid, t) IN
  \* a required form field is missing: the dependency has run, FastAPI
  \* answers 422 and the handler's body does not run
  IF form.attention_check_post = None
  THEN Outcome(s.memory, d, ErrorResponse(422))
  ELSE IF s.participant = None
  THEN Outcome(s.memory, d, RedirectResponse("/"))
  ELSE IF ~validate_step_access(s.participant, 6)
  THEN Outcome(s.memory, d, RedirectResponse(get_correct_step_redirect(s.participant)))
  ELSE LET p == s.participant[1]
           q == [p EXCEPT !.responses =
                            Put(@, "post_survey",
                                [cooking_skills |-> form.cooking_skills,
                                 recipe_factors |-> form.recipe_factors,
                                 comments |-> IF form.comments = None
                                              THEN Some("") ELSE form.comments,
                                 attention_check_post |-> form.attention_check_post]),
                          !.current_step = 7]
       IN Outcome(Put(s.memory, q.id, q), save_participant_responses(q, d, t, io),
                  RedirectResponse("/debriefing"))

\* GET /debriefing
debriefing_result(memory, d, sid, t, io) ==
  LET s == get_participant_from_session(memory, d, sid, t) IN
  IF s.participant = None
  THEN Outcome(s.memory, d, RedirectResponse("/"))
  ELSE IF ~validate_step_access(s.participant, 7)
  THEN Outcome(s.memory, d, RedirectResponse(get_correct_step_redirect(s.participant)))
  ELSE LET p == s.participant[1]
           q1 == [p EXCEPT !.completed = TRUE,
                           !.responses = Put(@, "completed_time", Some(t))]
           q == [q1 EXCEPT !.responses = Put(@, "attention_check_validation",
                                             validate_attention_checks(q1))]
       IN Outcome(Put(s.memory, q.id, q), save_participant_responses(q, d, t, io),
                  TemplateResponse("debriefing.html"))

\* a GET /complete that does not look at the completed flag
complete_study_result_unchecked(memory, d, sid, t) ==
  LET s == get_participant_from_session(memory, d, sid, t) IN
  IF s.participant = None
  THEN Outcome(s.memory, d, RedirectResponse("/"))
  ELSE Outcome(s.memory, d, RedirectResponse(PROLIFIC_COMPLETION_URL))

\* GET /complete
complete_study_result(memory, d, sid, t) ==
  LET s == get_participant_from_session(memory, d, sid, t) IN
  IF s.participant = None
  THEN Outcome(s.memory, d, RedirectResponse("/"))
  ELSE IF ~s.participant[1].completed
  THEN \* f"/{REQUIRED_STEPS[participant.current_step]}"; an index out of
       \* range raises IndexError
       IF s.participant[1].current_step + 1 \in DOMAIN REQUIRED_STEPS
       THEN Outcome(s.memory, d,
                    RedirectResponse("/" \o REQUIRED_STEPS[s.participant[1].current_step + 1]))
       ELSE Outcome(s.memory, d, ErrorResponse(500))
  ELSE Outcome(s.memory, d, RedirectResponse(PROLIFIC_COMPLETION_URL))

\* a POST /start that turns away a Prolific id with several sessions
start_survey_result_blocking(memory, d, t, form, suffix, selected_recipes) ==
  LET p == create_new_participant(t, suffix, selected_recipes)
      q == IF form.prolific_pid # None
           THEN [p EXCEPT !.responses =
                   Put(Put(@, "prolific_info",
                           [prolific_pid |-> form.prolific_pid,
                            study_id |-> form.study_id,
                            session_id |-> form.session_id]),
                       "session_manipulation_check",
                       detect_session_manipulation(d, form.prolific_pid))]
           ELSE p
  IN IF detect_session_manipulation(d, form.prolific_pid).multiple_sessions_detected
     THEN Outcome(memory, d, RedirectResponse("/"))
     ELSE Outcome(Put(memory, q.id, q), d, RedirectResponse("/demographics"))

\* POST /start
start_survey_result(memory, d, t, form, suffix, selected_recipes) ==
  LET p == create_new_participant(t, suffix, selected_recipes)
      q == IF form.prolific_pid # None
           THEN [p EXCEPT !.responses =
                   Put(Put(@, "prolific_info",
                           [prolific_pid |-> form.prolific_pid,
                            study_id |-> form.study_id,
                            session_id |-> form.session_id]),
                       "session_manipulation_check",
                       detect_session_manipulation(d, form.prolific_pid))]
           ELSE p
  IN Outcome(Put(memory, q.id, q), d, RedirectResponse("/demographics"))

(***************************************************************************)
(* The state machine.  An action is a handler served in an environment E:  *)
(* the workers E.workers that serve requests, the outcomes E.io of the     *)
(* file and database writes, the forms clients submit, the clock readings  *)
(* E.clock at which requests arrive, the step ids E.steps in the paths of   *)
(* the recipe evaluation requests, the number E.views of pages rendered,   *)
(* the number E.sessions of sessions started, and whether one browser     *)
(* restarts the survey (E.restarts).                                       *)
(***************************************************************************)
\* the session cookies a request can carry: none, or any id ever issued
Sessions == {NoSession} \cup UNION { DOMAIN participants[w] : w \in Workers }

\* the id in the cookie of a browser that started every session so far:
\* start_survey overwrites request.session["participant_id"]
Latest ==
  { sid \in Sessions \ {NoSession} :
      \A other \in Sessions \ {NoSession} : other[1] <= sid[1] }

\* the session cookies of the requests.  Where E.restarts, one browser
\* makes them all: it sends the cookie of the session it started last
Clients(E) ==
  IF E.restarts
  THEN IF Latest = {} THEN {NoSession} ELSE Latest
  ELSE Sessions

\* whether the step with index s is requested: where E.restarts, the
\* browser goes no further than the demographics page before it has
\* started the last of its E.sessions sessions
Requested(E, s) == E.restarts => (s = 0 \/ started = E.sessions)

\* every worker has imported app/db.py, which removes and recreates the
\* database file, and holds an empty participants dict
Init ==
  /\ now = 0
  /\ participants = [w \in Workers |-> EmptyDict]
  /\ db = EmptyDb
  /\ started = 0
  /\ viewed = 0
  /\ rerouted = 0

\* worker w serves a request with outcome out; the response goes to the
\* client and is no state of the server
Serve(w, out) ==
  /\ participants' = [participants EXCEPT ![w] = out.memory]
  /\ db' = out.db
  /\ IF w = 1
     THEN rerouted' = rerouted
     ELSE rerouted < MaxRerouted /\ rerouted' = rerouted + 1
  /\ UNCHANGED now

\* a page view: counted when a page is rendered for a request that
\* carries a session cookie
View(E, w, sid, out) ==
  /\ Serve(w, out)
  /\ IF out.response.status = 303 \/ sid = NoSession
     THEN viewed' = viewed
     ELSE viewed < E.views /\ viewed' = viewed + 1
  /\ UNCHANGED started

\* time passes between two requests
Tick(E) ==
  /\ \E t \in E.clock : t > now /\ now' = t
  /\ UNCHANGED << participants, db, started, viewed, rerouted >>

start_survey(E) ==
  /\ started < E.sessions
  /\ \E w \in E.workers, form \in E.starts, suffix \in RandomSuffixes,
        selected_recipes \in RecipeSelections :
       LET out == start_survey_result(participants[w], db, now, form, suffix,
                                      selected_recipes)
       IN Serve(w, out)
  /\ started' = started + 1
  /\ UNCHANGED viewed

demographics_form(E) ==
  \E w \in E.workers, sid \in Clients(E) :
    View(E, w, sid, demographics_form_result(participants[w], db, sid, now))

submit_demographics(E) ==
  \E w \in E.workers, sid \in Clients(E), form \in E.demographics, io \in E.io :
    /\ Serve(w, submit_demographics_result(participants[w], db, sid, now, form, io))
    /\ UNCHANGED << started, viewed >>

recipe_evaluation(E) ==
  \E w \in E.workers, sid \in Clients(E), step_id \in E.steps :
    /\ Requested(E, step_id)
    /\ View(E, w, sid, recipe_evaluation_result(participants[w], db, sid, now, step_id))

submit_recipe_evaluation(E) ==
  \E w \in E.workers, sid \in Clients(E), step_id \in E.steps, form \in E.evals,
     io \in E.io :
    /\ Requested(E, step_id)
    /\ Serve(w, submit_recipe_evaluation_result(participants[w], db, sid, now, step_id,
                                             form, io))
    /\ UNCHANGED << started, viewed >>

post_survey_form(E) ==
  \E w \in E.workers, sid \in Clients(E) :
    /\ Requested(E, 6)
    /\ View(E, w, sid, post_survey_form_result(participants[w], db, sid, now))

submit_post_survey(E) ==
  \E w \in E.workers, sid \in Clients(E), form \in E.posts, io \in E.io :
    /\ Requested(E, 6)
    /\ Serve(w, submit_post_survey_result(participants[w], db, sid, now, form, io))
    /\ UNCHANGED << started, viewed >>

debriefing(E) ==
  \E w \in E.workers, sid \in Clients(E), io \in E.io :
    /\ Requested(E, 7)
    /\ Serve(w, debriefing_result(participants[w], db, sid, now, io))
    /\ UNCHANGED << started, viewed >>

complete_study(E) ==
  \E w \in E.workers, sid \in Clients(E) :
    /\ Requested(E, 7)
    /\ Serve(w, complete_study_result(participants[w], db, sid, now))
    /\ UNCHANGED << started, viewed >>

Requests(E) ==
  \/ start_survey(E)
  \/ demographics_form(E)
  \/ submit_demographics(E)
  \/ recipe_evaluation(E)
  \/ submit_recipe_evaluation(E)
  \/ post_survey_form(E)
  \/ submit_post_survey(E)
  \/ debriefing(E)
  \/ complete_study(E)

Step(E) == Tick(E) \/ Requests(E)

\* one server process (run.py) whose writes succeed; one participant who
\* is not from Prolific and whose forms differ in the demographics
OneProcess ==
  [workers |-> {1}, io |-> {"ok"}, clock |-> ClockReadings, views |-> MaxViews,
   steps |-> StepIds,
   sessions |-> MaxStarts, restarts |-> FALSE,
   starts |-> { f \in StartForms : f.prolific_pid = None },
   demographics |-> DemographicsForms,
   evals |-> { f \in EvalForms : f.attention_check_recipe = Some(3) },
   posts |-> { f \in PostSurveyForms : f.attention_check_post = Some("gemini") }]

Next == Step(OneProcess)

Spec == Init /\ [][Next]_vars

\* the worker processes of run_production.py, which share the database
\* and each hold a participants dict of their own; a participant who gets
\* as far as the third evaluation, the pages being answered without
\* rendering them first
SeveralProcesses ==
  [workers |-> Workers, io |-> {"ok"}, clock |-> ClockReadings, views |-> 0,
   steps |-> 1..3,
   sessions |-> MaxStarts, restarts |-> FALSE,
   starts |-> { f \in StartForms : f.prolific_pid = None },
   demographics |-> { f \in DemographicsForms : f.age = Some("25") },
   evals |-> { f \in EvalForms : f.attention_check_recipe = Some(3) },
   posts |-> { f \in PostSurveyForms : f.attention_check_post = Some("gemini") }]

NextWorkers == Step(SeveralProcesses)

SpecWorkers == Init /\ [][NextWorkers]_vars

\* the clock readings around the two response-time thresholds
ThresholdReadings == {0, 1, 30, 570, 571, 600, 601}

\* one server process and one participant who views the demographics page
\* and the page of the first evaluation and answers them 29 s, 30 s, 31 s,
\* 600 s or 601 s later (the differences of the readings)
TimedPages ==
  [workers |-> {1}, io |-> {"ok"}, clock |-> ThresholdReadings, views |-> 2,
   steps |-> {1},
   sessions |-> MaxStarts, restarts |-> FALSE,
   starts |-> { f \in StartForms : f.prolific_pid = None },
   demographics |-> { f \in DemographicsForms : f.age = Some("25") },
   evals |-> { f \in EvalForms : f.attention_check_recipe = Some(3) },
   posts |-> { f \in PostSurveyForms : f.attention_check_post = Some("gemini") }]

NextTimes == Step(TimedPages)

SpecTimes == Init /\ [][NextTimes]_vars

\* clock readings that tell the sessions apart and put a page view more
\* than 600 s before its submission
PanelReadings == {0, 1, 602}

\* one server process and a participant of a Prolific study who restarts
\* the survey: the same Prolific id starts MaxPanelStarts sessions, at
\* most the demographics being answered in those before the last, and in
\* the last the attention checks are answered wrongly
PanelSessions ==
  [workers |-> {1}, io |-> {"ok"}, clock |-> PanelReadings, views |-> MaxViews,
   steps |-> 1..NUM_RECIPES_PER_PARTICIPANT,
   sessions |-> MaxPanelStarts, restarts |-> TRUE,
   starts |-> { f \in StartForms : f.prolific_pid # None },
   demographics |-> { f \in DemographicsForms : f.age = Some("25") },
   evals |-> { f \in EvalForms : f.attention_check_recipe = Some(4) },
   posts |-> { f \in PostSurveyForms : f.attention_check_post = Some("chatgpt") }]

NextPanel == Step(PanelSessions)

SpecPanel == Init /\ [][NextPanel]_vars

\* one server process whose file and database writes may fail, and one
\* participant who gets as far as the third evaluation, the pages being
\* answered without rendering them first
FailingWrites ==
  [workers |-> {1}, io |-> IoOutcomes, clock |-> {0, 1}, views |-> 0,
   steps |-> 1..3,
   sessions |-> MaxStarts, restarts |-> FALSE,
   starts |-> { f \in StartForms : f.prolific_pid = None },
   demographics |-> { f \in DemographicsForms : f.age = Some("25") },
   evals |-> { f \in EvalForms : f.attention_check_recipe = Some(3) },
   posts |-> { f \in PostSurveyForms : f.attention_check_post = Some("gemini") }]

NextFaults == Step(FailingWrites)

SpecFaults == Init /\ [][NextFaults]_vars

(***************************************************************************)
(* What a worker would answer.  The outcomes of every step handler for a   *)
(* request with session cookie sid served at time t by a worker whose dict *)
(* is memory, over every path parameter, valid form and write outcome: op  *)
(* is the handler, step the step index it validates, submit whether it is  *)
(* a POST.                                                                 *)
(***************************************************************************)
StepOutcomes(memory, d, sid, t) ==
  { [op |-> "demographics_form", step |-> 0, submit |-> FALSE,
     out |-> demographics_form_result(memory, d, sid, t)] }
  \cup { [op |-> "submit_demographics", step |-> 0, submit |-> TRUE,
          out |-> submit_demographics_result(memory, d, sid, t, form, io)] :
         form \in DemographicsForms, io \in IoOutcomes }
  \cup { [op |-> "recipe_evaluation", step |-> step_id, submit |-> FALSE,
          out |-> recipe_evaluation_result(memory, d, sid, t, step_id)] :
         step_id \in StepIds }
  \cup UNION { { [op |-> "submit_recipe_evaluation", step |-> step_id, submit |-> TRUE,
                  out |-> submit_recipe_evaluation_result(memory, d, sid, t, step_id,
                                                          form, io)] :
                 form \in EvalForms, io \in IoOutcomes } : step_id \in StepIds }
  \cup { [op |-> "post_survey_form", step |-> 6, submit |-> FALSE,
          out |-> post_survey_form_result(memory, d, sid, t)] }
  \cup { [op |-> "submit_post_survey", step |-> 6, submit |-> TRUE,
          out |-> submit_post_survey_result(memory, d, sid, t, form, io)] :
         form \in ValidPostSurveyForms, io \in IoOutcomes }
  \cup { [op |-> "debriefing", step |-> 7, submit |-> FALSE,
          out |-> debriefing_result(memory, d, sid, t, io)] : io \in IoOutcomes }

\* GET /complete validates no step
CompleteOutcomes(memory, d, sid, t) ==
  { complete_study_result(memory, d, sid, t) }

\* the key of responses under which the step with index s is stored
StepKey(s) == REQUIRED_STEPS[s + 1]

\* the steps a participant answers
AnswerableSteps == 0..6

\* the ids issued so far
Issued == Sessions \ {NoSession}

Max(a, b) == IF a >= b THEN a ELSE b
Min(a, b) == IF a <= b THEN a ELSE b

(***************************************************************************)
(* The session progress guard.                                             *)
(***************************************************************************)
\* C1: for every session and every sequence of requests, the session's
\* current_step never decreases from one request to the next.
CurrentStepNeverDecreases ==
  [][\A w \in Workers : \A sid \in DOMAIN participants[w] :
       sid \in DOMAIN participants'[w] =>
         participants'[w][sid].current_step >= participants[w][sid].current_step]_vars

\* the record of session sid after a request that resolved it and then did
\* nothing else, or that found it expired
Touched(p, t) ==
  IF is_session_expired(Some(p), t) THEN p ELSE update_participant_activity(p, t)

\* C2 (as the code has it): a view or submission whose step index is
\* greater than the session's current_step is always answered with a
\* redirect and never applied: the database and the session's current_step,
\* responses, completed and step_times are unchanged; last_activity is set
\* to the time of the request, unless the session is expired, and then the
\* whole record is unchanged.
OutOfOrderRejectedButTouched ==
  \A w \in Workers : \A sid \in DOMAIN participants[w] :
    \A r \in StepOutcomes(participants[w], db, sid, now) :
      r.step > participants[w][sid].current_step =>
        /\ r.out.response.status = 303
        /\ r.out.db = db
        /\ r.out.memory = Put(participants[w], sid, Touched(participants[w][sid], now))

\* C2 witness: a session at step 1 that is not expired and was last active
\* at an earlier clock reading, whose view of step 3 is redirected and has
\* no other effect than the new last_activity
OutOfOrderRejectedSeen ==
  \E sid \in DOMAIN participants[1] :
    LET p == participants[1][sid]
        out == recipe_evaluation_result(participants[1], db, sid, now, 3)
    IN /\ p.current_step = 1
       /\ p.last_activity # Some(now)
       /\ ~is_session_expired(Some(p), now)
       /\ out.response = RedirectResponse("/recipe_eval_1")
       /\ out.memory[sid] = [p EXCEPT !.last_activity = Some(now)]

\* C2 (as the specification has it): a view or submission whose step index
\* is greater than the session's current_step is rejected with a redirect
\* and leaves the whole session record unchanged, last_activity included.
OutOfOrderRejectedLeavesRecord ==
  \A w \in Workers : \A sid \in DOMAIN participants[w] :
    \A r \in StepOutcomes(participants[w], db, sid, now) :
      r.step > participants[w][sid].current_step =>
        /\ r.out.response.status = 303
        /\ r.out.db = db
        /\ r.out.memory = participants[w]

\* C3: when a request is rejected as out of order, the redirect target is
\* the route of the step at index current_step of that session, and the
\* same request repeated is redirected to the same target.
RejectedRedirectsToCurrentStep ==
  \A w \in Workers : \A sid \in DOMAIN participants[w] :
    LET p == participants[w][sid] IN
    ~is_session_expired(Some(p), now) =>
      /\ \A r \in StepOutcomes(participants[w], db, sid, now) :
           r.step > p.current_step =>
             r.out.response = RedirectResponse(STEP_ROUTES[p.current_step])
      /\ \A step_id \in StepIds :
           LET once == recipe_evaluation_result(participants[w], db, sid, now, step_id)
               twice == recipe_evaluation_result(once.memory, once.db, sid, now, step_id)
           IN step_id > p.current_step => twice.response = once.response

\* a submission changed what is stored for the session: its responses, its
\* current_step or the database
Applied(p, d, sid, out) ==
  \/ out.memory[sid].responses # p.responses
  \/ out.memory[sid].current_step # p.current_step
  \/ out.db # d

\* C4 (as the code has it): a submission for step index s is applied only
\* if s is at most the session's current_step at that moment: the
\* submission of the current step and of every step already passed is a
\* valid write.
SubmissionAppliedOnlyUpToCurrentStep ==
  \A w \in Workers : \A sid \in DOMAIN participants[w] :
    LET p == participants[w][sid] IN
    \A r \in StepOutcomes(participants[w], db, sid, now) :
      (r.submit /\ Applied(p, db, sid, r.out)) => r.step <= p.current_step

\* C4 witness: a session at step 4 whose stored answer to the attention
\* check of recipe_eval_3 is 3, and a submission of step 3 with the answer 4
\* that is stored in its place and leaves current_step at 4
PassedStepResubmitted ==
  \E sid \in DOMAIN participants[1] : \E form \in EvalForms :
    LET p == participants[1][sid]
        out == submit_recipe_evaluation_result(participants[1], db, sid, now, 3,
                                               form, "ok")
    IN /\ p.current_step = 4
       /\ p.responses["recipe_eval_3"]["attention_check_recipe"] = Some(3)
       /\ form.attention_check_recipe = Some(4)
       /\ out.memory[sid].responses["recipe_eval_3"]["attention_check_recipe"] = Some(4)
       /\ out.memory[sid].current_step = 4
       /\ out.response = RedirectResponse("/recipe_eval_4")

\* C4 (as the specification has it): a submission for step index s is
\* applied only if s equals the session's current_step at that moment.
SubmissionAppliedOnlyAtCurrentStep ==
  \A w \in Workers : \A sid \in DOMAIN participants[w] :
    LET p == participants[w][sid] IN
    \A r \in StepOutcomes(participants[w], db, sid, now) :
      (r.submit /\ Applied(p, db, sid, r.out)) => r.step = p.current_step

\* a submission the handler accepted: the session resolved, the step passed
\* validation, and the handler answered with the redirect to the next page
Accepted(p, t, r) ==
  /\ r.submit
  /\ ~is_session_expired(Some(p), t)
  /\ r.step <= p.current_step
  /\ r.out.response.status = 303

\* C5: an accepted submission for step index s sets current_step to
\* max(previous current_step, s + 1), for demographics (s = 0), recipe
\* evaluation (s = 1..5) and post-survey (s = 6).
AcceptedSubmissionAdvancesToMax ==
  \A w \in Workers : \A sid \in DOMAIN participants[w] :
    LET p == participants[w][sid] IN
    \A r \in StepOutcomes(participants[w], db, sid, now) :
      Accepted(p, now, r) =>
        r.out.memory[sid].current_step = Max(p.current_step, r.step + 1)

\* the answers to step s that the database holds for session sid
DbAnswers(d, sid, s) ==
  IF s = 0
  THEN IF sid \in DOMAIN d.participants
       THEN << [age |-> d.participants[sid].age, gender |-> d.participants[sid].gender,
                education |-> d.participants[sid].education] >>
       ELSE << >>
  ELSE IF s \in 1..NUM_RECIPES_PER_PARTICIPANT
  THEN SelectSeq(d.recipe_evaluations,
                 LAMBDA r : r.participant_id = sid /\ r.eval_number = s)
  ELSE SelectSeq(d.post_survey, LAMBDA r : r.participant_id = sid)

\* this step adds or changes the response to step s in the record worker w
\* holds of session sid
ResponseWritten(w, sid, s) ==
  /\ sid \in DOMAIN participants[w]
  /\ sid \in DOMAIN participants'[w]
  /\ StepKey(s) \in DOMAIN participants'[w][sid].responses
  /\ \/ StepKey(s) \notin DOMAIN participants[w][sid].responses
     \/ participants'[w][sid].responses[StepKey(s)]
          # participants[w][sid].responses[StepKey(s)]

\* this step is worker w serving the submission of step s for session sid
SubmissionServed(w, sid, s) ==
  \E io \in IoOutcomes :
    LET Is(out) == /\ participants' = [participants EXCEPT ![w] = out.memory]
                   /\ db' = out.db
    IN IF s = 0
       THEN \E form \in DemographicsForms :
              Is(submit_demographics_result(participants[w], db, sid, now, form, io))
       ELSE IF s \in 1..NUM_RECIPES_PER_PARTICIPANT
       THEN \E form \in EvalForms :
              Is(submit_recipe_evaluation_result(participants[w], db, sid, now, s,
                                                 form, io))
       ELSE \E form \in PostSurveyForms :
              Is(submit_post_survey_result(participants[w], db, sid, now, form, io))

\* C6: the stored response of a step (in a worker's record of the session,
\* and the answers the database holds for it) is added or overwritten only
\* by a submission for exactly that step; no view, no submission of another
\* step, no debriefing or complete request and no rejected request changes
\* it.
ResponseWrittenOnlyByItsStep ==
  [][\A sid \in Issued : \A s \in AnswerableSteps :
       /\ \A w \in Workers : ResponseWritten(w, sid, s) => SubmissionServed(w, sid, s)
       /\ DbAnswers(db', sid, s) # DbAnswers(db, sid, s) =>
            \E w \in Workers : SubmissionServed(w, sid, s)]_vars

\* the last activity expiry is judged by when worker w serves session sid:
\* that of the record the worker holds, else that of the database row
ConsultedActivity(w, sid) ==
  IF sid \in DOMAIN participants[w] THEN participants[w][sid].last_activity
  ELSE IF sid \in DOMAIN db.participants THEN db.participants[sid].last_activity_at
  ELSE None

TimedOut(w, sid) ==
  /\ ConsultedActivity(w, sid) # None
  /\ now - ConsultedActivity(w, sid)[1] > SESSION_TIMEOUT_MINUTES * 60

\* C7: for every step operation (view or submit of any step, debriefing,
\* complete), a request whose session has a last_activity more than 60
\* minutes in the past is treated as expired: the session is not resolved,
\* and the worker's records and the database are as before the request.
ExpiredSessionNotServed ==
  \A w \in Workers : \A sid \in Issued :
    TimedOut(w, sid) =>
      /\ get_participant_from_session(participants[w], db, sid, now).participant = None
      /\ \A r \in StepOutcomes(participants[w], db, sid, now) :
           r.out.memory = participants[w] /\ r.out.db = db
      /\ \A out \in CompleteOutcomes(participants[w], db, sid, now) :
           out.memory = participants[w] /\ out.db = db

\* C7 witness: a session past demographics whose record in one worker and
\* whose database row, which is all another worker has of it, are both
\* more than 60 minutes old, and whose submission of step 1 is answered by
\* both workers with the redirect to the start page
ExpiredSessionSeen ==
  \E w \in Workers, v \in Workers : \E sid \in DOMAIN participants[w] :
    /\ sid \notin DOMAIN participants[v]
    /\ sid \in DOMAIN db.participants
    /\ participants[w][sid].current_step = 1
    /\ TimedOut(w, sid) /\ TimedOut(v, sid)
    /\ \A u \in {w, v} : \A form \in EvalForms :
         submit_recipe_evaluation_result(participants[u], db, sid, now, 1, form,
                                         "ok").response = RedirectResponse("/")

\* worker w finds session sid expired
FoundExpired(w, sid) ==
  LET known == IF sid \in DOMAIN participants[w] THEN Some(participants[w][sid])
               ELSE IF sid \in DOMAIN db.participants
               THEN Some(RebuiltParticipant(sid, get_participant_data(db, sid)[1]))
               ELSE None
  IN is_session_expired(known, now)

\* C8: a request carrying an expired session is answered by every step
\* handler exactly as a request with no session, and once a session has
\* been found expired no later request with that session id resumes it.
ExpiredIsNoSessionForGood ==
  \A w \in Workers : \A sid \in Issued :
    FoundExpired(w, sid) =>
      /\ { [op |-> r.op, step |-> r.step, response |-> r.out.response] :
             r \in StepOutcomes(participants[w], db, sid, now) }
           = { [op |-> r.op, step |-> r.step, response |-> r.out.response] :
               r \in StepOutcomes(participants[w], db, NoSession, now) }
      /\ \A v \in Workers :
           get_participant_from_session(participants[v], db, sid, now).participant = None

\* C9: when a session is found expired, its record is discarded from the
\* in-memory participants dict: the dict no longer contains that id after
\* the request.
ExpiredRecordDiscarded ==
  \A w \in Workers : \A sid \in DOMAIN participants[w] :
    is_session_expired(Some(participants[w][sid]), now) =>
      /\ \A r \in StepOutcomes(participants[w], db, sid, now) :
           sid \notin DOMAIN r.out.memory
      /\ \A out \in CompleteOutcomes(participants[w], db, sid, now) :
           sid \notin DOMAIN out.memory

\* C10: the completion timestamp of a session is set at most once: after
\* it has been set, in the session's record or in its database row, no
\* later request changes its value.
CompletedTimeSetOnce ==
  [][/\ \A w \in Workers : \A sid \in DOMAIN participants[w] :
          "completed_time" \in DOMAIN participants[w][sid].responses =>
            /\ sid \in DOMAIN participants'[w]
            /\ "completed_time" \in DOMAIN participants'[w][sid].responses
            /\ participants'[w][sid].responses["completed_time"]
                 = participants[w][sid].responses["completed_time"]
     /\ \A sid \in DOMAIN db.participants :
          db.participants[sid].completed_time # None =>
            /\ sid \in DOMAIN db'.participants
            /\ db'.participants[sid].completed_time = db.participants[sid].completed_time]_vars

(***************************************************************************)
(* Completion, response times, attention checks, duplicate sessions.       *)
(***************************************************************************)
\* the index of the last step, debriefing: the largest value current_step
\* is ever given (submit_post_survey sets it)
TerminalStep == Len(REQUIRED_STEPS) - 1

\* C11: in every reachable state of every session, completed = true implies
\* that current_step equals the terminal step index.
CompletedAtTerminalStep ==
  \A w \in Workers : \A sid \in DOMAIN participants[w] :
    participants[w][sid].completed =>
      participants[w][sid].current_step = TerminalStep

\* key k is in both dicts with one value, or in neither
SameEntry(r1, r2, k) ==
  /\ k \in DOMAIN r1 <=> k \in DOMAIN r2
  /\ k \in DOMAIN r1 => r1[k] = r2[k]

\* the post-survey submissions of session sid that worker w would accept
AcceptedPostSurveys(w, sid) ==
  { r \in StepOutcomes(participants[w], db, sid, now) :
      r.op = "submit_post_survey" /\ Accepted(participants[w][sid], now, r) }

\* the debriefing views of session sid that worker w would render
RenderedDebriefings(w, sid) ==
  { r \in StepOutcomes(participants[w], db, sid, now) :
      r.op = "debriefing" /\ r.out.response.status = 200 }

\* C12 (as the code has it): an accepted post-survey submission stores the
\* payload and sets current_step to 7, and does not complete the session:
\* completed, completed_time and attention_check_validation are as before
\* it.  The debriefing view that follows does: it sets completed, sets
\* completed_time to the time of the view, and records the attention-check
\* validation of the stored answers.
CompletedByDebriefingNotPostSurvey ==
  \A w \in Workers : \A sid \in DOMAIN participants[w] :
    LET p == participants[w][sid] IN
    /\ \A r \in AcceptedPostSurveys(w, sid) :
         LET q == r.out.memory[sid] IN
         /\ "post_survey" \in DOMAIN q.responses
         /\ q.current_step = 7
         /\ q.completed = p.completed
         /\ SameEntry(q.responses, p.responses, "completed_time")
         /\ SameEntry(q.responses, p.responses, "attention_check_validation")
    /\ \A r \in RenderedDebriefings(w, sid) :
         LET q == r.out.memory[sid] IN
         /\ q.completed
         /\ q.responses["completed_time"] = Some(now)
         /\ q.responses["attention_check_validation"] = validate_attention_checks(q)

\* C12 witness: a session whose post-survey was accepted (current_step is
\* 7 and the payload is stored) and that is not completed: no completed_time
\* and no attention_check_validation is recorded
PostSurveyAcceptedNotCompleted ==
  \E sid \in DOMAIN participants[1] :
    LET p == participants[1][sid] IN
    /\ p.current_step = 7
    /\ "post_survey" \in DOMAIN p.responses
    /\ ~p.completed
    /\ "completed_time" \notin DOMAIN p.responses
    /\ "attention_check_validation" \notin DOMAIN p.responses
    /\ db.participants[sid].completed = FALSE

\* C12 (as the specification has it): an accepted post-survey submission
\* itself marks the session completed, sets the completion timestamp to
\* the submission time and records the attention-check validation.
CompletedByPostSurvey ==
  \A w \in Workers : \A sid \in DOMAIN participants[w] :
    \A r \in AcceptedPostSurveys(w, sid) :
      LET q == r.out.memory[sid] IN
      /\ q.completed
      /\ "completed_time" \in DOMAIN q.responses
      /\ q.responses["completed_time"] = Some(now)
      /\ "attention_check_validation" \in DOMAIN q.responses

(***************************************************************************)
(* Data-quality checks.                                                    *)
(***************************************************************************)
\* what validate_response_time's result says of the submission
TooFast(r) == ~r.valid
TooSlow(r) == r.valid /\ r.warning = Some("Response very slow")
Unflagged(r) == r.valid /\ r.warning = None

\* the step types the handlers pass to validate_response_time
StepTypes == { StepKey(s) : s \in AnswerableSteps }

\* the displacements of a start time and its submission time together
Shifts == {1, 30, 600}

\* C13: for every recorded start time and the submission that the clock
\* now allows, the classification is a function of the elapsed seconds and
\* of whether the step is a recipe evaluation: too fast iff recipe
\* evaluation and elapsed < 30, too slow iff not too fast and elapsed >
\* 600, unflagged otherwise; 30 s is never too fast, 600 s never too slow.
ResponseTimeClassification ==
  \A w \in Workers : \A sid \in DOMAIN participants[w] :
    \A key \in DOMAIN participants[w][sid].step_times :
      LET start == participants[w][sid].step_times[key]
          elapsed == now - start
      IN \A step_type \in StepTypes :
           LET r == validate_response_time(start, step_type, now) IN
           /\ r.time_spent_seconds = Some(elapsed)
           /\ TooFast(r) <=> (IsRecipeEval(step_type) /\ elapsed < 30)
           /\ TooSlow(r) <=> (~TooFast(r) /\ elapsed > 600)
           /\ Unflagged(r) <=> (~TooFast(r) /\ ~TooSlow(r))
           /\ elapsed = 30 => ~TooFast(r)
           /\ elapsed = 600 => ~TooSlow(r)
           /\ \A k \in Shifts :
                LET r2 == validate_response_time(start + k, step_type, now + k) IN
                /\ r2.valid = r.valid
                /\ r2.warning = r.warning
           /\ \A other \in StepTypes :
                IsRecipeEval(other) = IsRecipeEval(step_type) =>
                  LET r3 == validate_response_time(start, other, now) IN
                  /\ r3.valid = r.valid
                  /\ r3.warning = r.warning

\* C13 witness: the page of the first evaluation was rendered exactly 30 s
\* ago and the demographics page exactly 600 s ago
ThresholdsElapsed ==
  \E sid \in DOMAIN participants[1] :
    LET st == participants[1][sid].step_times IN
    /\ "recipe_eval_1" \in DOMAIN st
    /\ now - st["recipe_eval_1"] = 30
    /\ "demographics" \in DOMAIN st
    /\ now - st["demographics"] = 600

\* dict d without key k
Without(d, k) == [x \in (DOMAIN d) \ {k} |-> d[x]]

\* the record p with the page of step_type rendered at time t0
Timed(p, step_type, t0) == [p EXCEPT !.step_times = Put(@, step_type, t0)]

\* the outcome u of a submission of step s by a session without a start
\* time for it, against the outcome v of the same submission by the same
\* session with one: both are accepted with the same answer, database,
\* current_step and stored payloads, the payload of an evaluation without
\* the key response_time_seconds
StoredLikeTimed(u, v, sid, s) ==
  LET key == StepKey(s)
      a == u.memory[sid]
      b == v.memory[sid]
  IN /\ u.response.status = 303
     /\ u.response = v.response
     /\ u.db = v.db
     /\ a.current_step = b.current_step
     /\ a.completed = b.completed
     /\ a.last_activity = b.last_activity
     /\ DOMAIN a.responses = DOMAIN b.responses
     /\ key \in DOMAIN a.responses
     /\ "response_time_seconds" \notin DOMAIN a.responses[key]
     /\ a.responses[key] = Without(b.responses[key], "response_time_seconds")
     /\ \A k \in DOMAIN a.responses \ {key} : a.responses[k] = b.responses[k]

\* session sid of worker w may submit step s and has no start time for it
Untimed(w, sid, s) ==
  LET p == participants[w][sid] IN
  /\ ~is_session_expired(Some(p), now)
  /\ s <= p.current_step
  /\ StepKey(s) \notin DOMAIN p.step_times

\* C14: a submission for a step without a recorded start time skips the
\* time validation (no classification is made) and is accepted and stored
\* as the same submission with a start time is, whatever that start time:
\* same answer, same database, same current_step, same payload but for the
\* measured time.
UntimedSubmissionAccepted ==
  \A w \in Workers : \A sid \in DOMAIN participants[w] : \A s \in AnswerableSteps :
    Untimed(w, sid, s) =>
      LET m == participants[w]
          p == m[sid]
          key == StepKey(s)
      IN /\ TimeValidation(p, key, now) = None
         /\ \A t0 \in { t \in ClockReadings : t <= now } : \A io \in IoOutcomes :
              LET mt == Put(m, sid, Timed(p, key, t0)) IN
              /\ s = 0 =>
                   \A form \in DemographicsForms :
                     StoredLikeTimed(submit_demographics_result(m, db, sid, now, form, io),
                                     submit_demographics_result(mt, db, sid, now, form, io),
                                     sid, s)
              /\ s \in 1..NUM_RECIPES_PER_PARTICIPANT =>
                   \A form \in EvalForms :
                     StoredLikeTimed(
                       submit_recipe_evaluation_result(m, db, sid, now, s, form, io),
                       submit_recipe_evaluation_result(mt, db, sid, now, s, form, io),
                       sid, s)
              /\ s = 6 =>
                   \A form \in ValidPostSurveyForms :
                     StoredLikeTimed(submit_post_survey_result(m, db, sid, now, form, io),
                                     submit_post_survey_result(mt, db, sid, now, form, io),
                                     sid, s)

\* C14 witness: the first evaluation was submitted and stored without its
\* page having been rendered, and the session moved on
UntimedEvaluationStored ==
  \E sid \in DOMAIN participants[1] :
    LET p == participants[1][sid] IN
    /\ "recipe_eval_1" \notin DOMAIN p.step_times
    /\ "recipe_eval_1" \in DOMAIN p.responses
    /\ "response_time_seconds" \notin DOMAIN p.responses["recipe_eval_1"]
    /\ p.current_step >= 2
    /\ Len(db.recipe_evaluations) >= 1

\* two outcomes that take the session sid equally far: the same answer
\* to the client, the same current_step and completed, answers stored
\* under the same keys, the same rows in the database
SameFlow(u, v, sid) ==
  /\ u.response = v.response
  /\ sid \in DOMAIN u.memory <=> sid \in DOMAIN v.memory
  /\ sid \in DOMAIN u.memory =>
       /\ u.memory[sid].current_step = v.memory[sid].current_step
       /\ u.memory[sid].completed = v.memory[sid].completed
       /\ DOMAIN u.memory[sid].responses = DOMAIN v.memory[sid].responses
  /\ DOMAIN u.db.participants = DOMAIN v.db.participants
  /\ Len(u.db.recipe_evaluations) = Len(v.db.recipe_evaluations)
  /\ Len(u.db.post_survey) = Len(v.db.post_survey)

\* the record p with no start time for step_type
NotTimed(p, step_type) == [p EXCEPT !.step_times = Without(@, step_type)]

\* the start times a page view may have recorded by now
StartTimes == { t \in PanelReadings : t <= now }

\* the submissions of step s by session sid with the forms of the panel
\* participant, their writes succeeding, take the same course whether the
\* page was rendered at t0 (too fast, too slow or neither) or never
TimeFlagsIgnored(m, sid, s, t0) ==
  LET key == StepKey(s)
      mu == Put(m, sid, NotTimed(m[sid], key))
      mt == Put(m, sid, Timed(m[sid], key, t0))
  IN \A io \in PanelSessions.io :
       /\ s = 0 =>
            \A form \in PanelSessions.demographics :
              SameFlow(submit_demographics_result(mu, db, sid, now, form, io),
                       submit_demographics_result(mt, db, sid, now, form, io), sid)
       /\ s \in 1..NUM_RECIPES_PER_PARTICIPANT =>
            \A form \in PanelSessions.evals :
              SameFlow(submit_recipe_evaluation_result(mu, db, sid, now, s, form, io),
                       submit_recipe_evaluation_result(mt, db, sid, now, s, form, io),
                       sid)
       /\ s = 6 =>
            \A form \in PanelSessions.posts :
              SameFlow(submit_post_survey_result(mu, db, sid, now, form, io),
                       submit_post_survey_result(mt, db, sid, now, form, io), sid)

\* the submissions of the evaluations and of the post-survey take the
\* same course as with the right answer to the attention check: a session
\* that has reached the step is answered with a redirect to the next one
AttentionAnswersIgnored(m, sid) ==
  \A io \in IoOutcomes :
    /\ \A step_id \in 1..Min(m[sid].current_step, NUM_RECIPES_PER_PARTICIPANT) :
         \A f \in EvalForms :
           LET g == [f EXCEPT !.attention_check_recipe = Some(3)]
               u == submit_recipe_evaluation_result(m, db, sid, now, step_id, f, io)
               v == submit_recipe_evaluation_result(m, db, sid, now, step_id, g, io)
           IN /\ SameFlow(u, v, sid)
              /\ u.response.status = 303
              /\ u.memory[sid].current_step = Max(m[sid].current_step, step_id + 1)
              /\ RecipeEvalKey(step_id) \in DOMAIN u.memory[sid].responses
    /\ 6 <= m[sid].current_step =>
         \A f \in ValidPostSurveyForms :
           LET g == [f EXCEPT !.attention_check_post = Some("gemini")]
               u == submit_post_survey_result(m, db, sid, now, f, io)
               v == submit_post_survey_result(m, db, sid, now, g, io)
           IN /\ SameFlow(u, v, sid)
              /\ u.response = RedirectResponse("/debriefing")
              /\ u.memory[sid].current_step = 7
              /\ u.memory[sid].responses["post_survey"].attention_check_post
                   = f.attention_check_post

\* whatever was flagged, a session at the last step is shown the
\* debriefing page and completed by it, and a completed session is sent to
\* the completion URL
CompletionOpen(m, sid) ==
  /\ m[sid].current_step = 7 =>
       \A io \in IoOutcomes :
         LET u == debriefing_result(m, db, sid, now, io) IN
         /\ u.response = TemplateResponse("debriefing.html")
         /\ u.memory[sid].completed
  /\ m[sid].completed =>
       complete_study_result(m, db, sid, now).response
         = RedirectResponse(PROLIFIC_COMPLETION_URL)

\* a session is started whatever the database holds for the Prolific id
DuplicatesIgnored(m) ==
  \A form \in StartForms, suffix \in RandomSuffixes, selected_recipes \in RecipeSelections :
    LET u == start_survey_result(m, db, now, form, suffix, selected_recipes)
        v == start_survey_result(m, EmptyDb, now, form, suffix, selected_recipes)
        sid == << now, suffix >>
    IN /\ u.response = RedirectResponse("/demographics")
       /\ u.db = db
       /\ sid \in DOMAIN u.memory
       /\ u.memory[sid].current_step = 0
       /\ ~u.memory[sid].completed
       /\ SameFlow(u, [v EXCEPT !.db = db], sid)

\* C15: no advisory outcome changes the course of a request.  In every
\* state and for the session of the browser, not expired: a submission of
\* a step the session has reached is
\* answered, stored and advances current_step the same whether its page
\* was rendered too short a time ago, too long ago or never, and whatever
\* the answer to the attention check; the debriefing page and the
\* completion URL are served whatever was flagged; and a session is
\* started whether or not the Prolific id already has sessions.
AdvisoryNeverBlocks ==
  /\ DuplicatesIgnored(participants[1])
  /\ \A sid \in Latest :
       ~is_session_expired(Some(participants[1][sid]), now) =>
         /\ \A s \in 0..Min(participants[1][sid].current_step, 6) : \A t0 \in StartTimes :
              TimeFlagsIgnored(participants[1], sid, s, t0)
         /\ AttentionAnswersIgnored(participants[1], sid)
         /\ CompletionOpen(participants[1], sid)

\* C15 witness: a session that was flagged in all three ways (started
\* when the Prolific id had several sessions, an evaluation submitted too
\* fast, both attention checks failed) and is completed
FlaggedSessionCompleted ==
  \E sid \in DOMAIN participants[1] :
    LET p == participants[1][sid] IN
    /\ p.completed
    /\ p.current_step = 7
    /\ p.responses["session_manipulation_check"].multiple_sessions_detected
    /\ ~p.responses["attention_check_validation"].overall_passed
    /\ p.responses["recipe_eval_3"].attention_check_recipe = Some(4)
    /\ p.responses["post_survey"].attention_check_post = Some("chatgpt")
    /\ \E k \in 1..NUM_RECIPES_PER_PARTICIPANT :
         /\ "response_time_seconds" \in DOMAIN p.responses[RecipeEvalKey(k)]
         /\ TooFast(validate_response_time(p.step_times[RecipeEvalKey(k)],
                                           RecipeEvalKey(k),
                                           p.step_times[RecipeEvalKey(k)] +
                                             p.responses[RecipeEvalKey(k)].response_time_seconds[1]))
    /\ db.participants[sid].completed

\* the evaluations of session sid that were submitted too fast (too slow),
\* by the measured time their stored payload holds
FastEvaluations(p) ==
  { k \in 1..NUM_RECIPES_PER_PARTICIPANT :
      /\ RecipeEvalKey(k) \in DOMAIN p.responses
      /\ "response_time_seconds" \in DOMAIN p.responses[RecipeEvalKey(k)]
      /\ p.responses[RecipeEvalKey(k)].response_time_seconds[1] < MIN_RESPONSE_TIME_SECONDS }

SlowEvaluations(p) ==
  { k \in 1..NUM_RECIPES_PER_PARTICIPANT :
      /\ RecipeEvalKey(k) \in DOMAIN p.responses
      /\ "response_time_seconds" \in DOMAIN p.responses[RecipeEvalKey(k)]
      /\ p.responses[RecipeEvalKey(k)].response_time_seconds[1]
           > MAX_RESPONSE_TIME_MINUTES * 60 }

\* C16: every too-fast or too-slow classification of a submission is
\* recorded, so that the quality report returns the response-time flags:
\* when a session holds an evaluation that was submitted too fast (too
\* slow), the report counts at least one fast (slow) response.
ResponseTimeFlagsReported ==
  \A sid \in DOMAIN participants[1] :
    LET p == participants[1][sid]
        report == get_quality_metrics(db)
    IN /\ FastEvaluations(p) # {} => report.fast_responses >= 1
       /\ SlowEvaluations(p) # {} => report.slow_responses >= 1

\* what validate_attention_checks says of one check: None, True or False
CheckResult(x) ==
  IF x = None THEN "not presented" ELSE IF x[1] THEN "passed" ELSE "failed"

\* what the answer to a check is to be classified as: the field absent
\* from the submitted payload, the expected answer, or another
CheckExpected(answer, expected) ==
  IF answer = None THEN "not presented"
  ELSE IF answer = Some(expected) THEN "passed" ELSE "failed"

\* C17: each of the two checks yields one of passed / failed / not
\* presented, and a check whose field was absent from the submitted
\* payload is not presented, never failed: after an accepted submission of
\* the third evaluation (of the post-survey) the validation classifies the
\* recipe check (the post-survey check) by the submitted field.
AttentionCheckClassified ==
  \A sid \in DOMAIN participants[1] :
    LET m == participants[1]
        p == m[sid]
    IN ~is_session_expired(Some(p), now) =>
         \A io \in IoOutcomes :
           /\ 3 <= p.current_step =>
                \A f \in EvalForms :
                  LET u == submit_recipe_evaluation_result(m, db, sid, now, 3, f, io)
                      v == validate_attention_checks(u.memory[sid])
                  IN /\ u.response.status = 303
                     /\ CheckResult(v.recipe_attention_check_passed)
                          = CheckExpected(f.attention_check_recipe, 3)
           /\ 6 <= p.current_step =>
                \A f \in PostSurveyForms :
                  LET u == submit_post_survey_result(m, db, sid, now, f, io)
                      v == validate_attention_checks(u.memory[sid])
                  IN u.response.status = 303 =>
                       CheckResult(v.post_survey_attention_check_passed)
                         = CheckExpected(f.attention_check_post, "gemini")

\* the stored answer of record p to the post-survey check, None when no
\* post-survey is stored
PostAnswer(p) ==
  DictGet(GetDict(p.responses, "post_survey"), "attention_check_post")

\* C18: the overall result is passed exactly when every presented check
\* passed, a check whose field was not submitted being not presented:
\* after an accepted submission of the third evaluation, the validation's
\* overall_passed holds iff neither the submitted recipe answer nor the
\* stored post-survey answer is a wrong one.
OverallPassedIffPresentedPassed ==
  \A sid \in DOMAIN participants[1] :
    LET m == participants[1]
        p == m[sid]
    IN (~is_session_expired(Some(p), now) /\ 3 <= p.current_step) =>
         \A f \in EvalForms : \A io \in IoOutcomes :
           LET u == submit_recipe_evaluation_result(m, db, sid, now, 3, f, io)
               v == validate_attention_checks(u.memory[sid])
           IN v.overall_passed <=>
                /\ CheckExpected(f.attention_check_recipe, 3) # "failed"
                /\ CheckExpected(PostAnswer(u.memory[sid]), "gemini") # "failed"

\* C19: a post-survey submitted without the attention-check field is
\* accepted, and the result recorded for the session has the post-survey
\* check as not presented and, the recipe check having passed, overall
\* passed: for a session at the post-survey step whose stored recipe
\* answer is 3, the submission is answered with the redirect to the
\* debriefing, its payload is stored, and the validation of the record
\* gives None for the post-survey check and overall_passed.
PostSurveyWithoutCheckAccepted ==
  \A sid \in DOMAIN participants[1] :
    LET m == participants[1]
        p == m[sid]
    IN ( /\ ~is_session_expired(Some(p), now)
         /\ p.current_step = 6
         /\ validate_attention_checks(p).recipe_attention_check_passed = Some(TRUE) ) =>
         \A f \in PostSurveyForms \ ValidPostSurveyForms :
           LET u == submit_post_survey_result(m, db, sid, now, f, "ok")
               v == validate_attention_checks(u.memory[sid])
           IN /\ u.response = RedirectResponse("/debriefing")
              /\ u.memory[sid].current_step = 7
              /\ "post_survey" \in DOMAIN u.memory[sid].responses
              /\ v.post_survey_attention_check_passed = None
              /\ v.overall_passed

\* the Prolific id session p was started with, None if it was started
\* without one
PanelId(p) == DictGet(GetDict(p.responses, "prolific_info"), "prolific_pid")

\* the participant ids check_prolific_duplicate returns for prolific_pid
Enumerated(d, prolific_pid) ==
  { check_prolific_duplicate(d, prolific_pid)[k].participant_id :
      k \in DOMAIN check_prolific_duplicate(d, prolific_pid) }

\* C20: once two sessions have been started with the same Prolific id,
\* enumerating the sessions by that id returns both, and the duplicate
\* check made for the second of them reports several sessions.
SecondSessionFlagged ==
  \A a, b \in DOMAIN participants[1] :
    LET first == participants[1][a]
        second == participants[1][b]
    IN ( /\ IdBefore(a, b)
         /\ PanelId(first) # None
         /\ PanelId(first) = PanelId(second) ) =>
         /\ {a, b} \subseteq Enumerated(db, PanelId(first))
         /\ second.responses["session_manipulation_check"].multiple_sessions_detected

(***************************************************************************)
(* Persistence.                                                            *)
(***************************************************************************)
\* database d holds at most one recipe_evaluations row for each participant
\* and eval_number and at most one post_survey row for each participant
\* (its participants rows are keyed by participant_id)
OneRowPerKey(d) ==
  /\ \A j, k \in DOMAIN d.recipe_evaluations :
       ( /\ d.recipe_evaluations[j].participant_id = d.recipe_evaluations[k].participant_id
         /\ d.recipe_evaluations[j].eval_number = d.recipe_evaluations[k].eval_number )
         => j = k
  /\ \A j, k \in DOMAIN d.post_survey :
       d.post_survey[j].participant_id = d.post_survey[k].participant_id => j = k
  /\ \A k \in DOMAIN d.recipe_evaluations :
       d.recipe_evaluations[k].participant_id \in DOMAIN d.participants
  /\ \A k \in DOMAIN d.post_survey :
       d.post_survey[k].participant_id \in DOMAIN d.participants

\* C21: saving is an idempotent upsert keyed by the session id.  The
\* database always holds one row for each key; a save of a record puts a
\* participants row for its id and keeps that so; and a second save of
\* the same record, at once or later, changes no stored answer and adds no
\* row.
SaveIsIdempotentUpsert ==
  /\ OneRowPerKey(db)
  /\ \A w \in Workers : \A sid \in DOMAIN participants[w] :
       LET p == participants[w][sid]
           once == save_participant_responses(p, db, now, "ok")
       IN /\ OneRowPerKey(once)
          /\ sid \in DOMAIN once.participants
          /\ \A t \in { r \in ClockReadings : r >= now } :
               LET twice == save_participant_responses(p, once, t, "ok") IN
               /\ OneRowPerKey(twice)
               /\ DOMAIN twice.participants = DOMAIN once.participants
               /\ twice.recipe_evaluations = once.recipe_evaluations
               /\ twice.post_survey = once.post_survey
               /\ \A s \in AnswerableSteps :
                    DbAnswers(twice, sid, s) = DbAnswers(once, sid, s)
               /\ twice.participants[sid].current_step = once.participants[sid].current_step
               /\ twice.participants[sid].completed = once.participants[sid].completed

\* C21 witness: a session saved by each of its eight requests, the
\* database holding its participants row, five evaluations and post-survey
SavedManyTimes ==
  \E sid \in DOMAIN participants[1] :
    /\ participants[1][sid].completed
    /\ sid \in DOMAIN db.participants
    /\ db.participants[sid].completed
    /\ Len(db.recipe_evaluations) = NUM_RECIPES_PER_PARTICIPANT
    /\ Len(db.post_survey) = 1

\* outcome bad of a request whose write failed against outcome ok of the
\* same request whose write succeeded: the worker's records and the
\* response are the same, and the database is as before the request
AsOnSuccess(bad, ok) ==
  /\ bad.memory = ok.memory
  /\ bad.response = ok.response
  /\ bad.response.status # 500
  /\ bad.db = db

\* C22: if the file or database write of a submission fails, the session
\* in memory holds the submitted payload and the advanced current_step as
\* after a successful write, the client gets the same redirect, and no
\* error: for every submit handler, form and kind of failure the outcome
\* differs from that of the successful request in the database only, which
\* is left as it was.
FailedWriteKeepsSession ==
  \A w \in Workers : \A sid \in DOMAIN participants[w] :
    LET m == participants[w] IN
    \A io \in IoOutcomes \ {"ok"} :
      /\ \A form \in DemographicsForms :
           LET bad == submit_demographics_result(m, db, sid, now, form, io) IN
           /\ AsOnSuccess(bad, submit_demographics_result(m, db, sid, now, form, "ok"))
           /\ ~is_session_expired(Some(m[sid]), now) =>
                /\ bad.memory[sid].responses["demographics"].age = form.age
                /\ bad.response = RedirectResponse("/recipe_eval_1")
      /\ \A step_id \in StepIds : \A form \in EvalForms :
           LET bad == submit_recipe_evaluation_result(m, db, sid, now, step_id, form, io) IN
           /\ AsOnSuccess(bad, submit_recipe_evaluation_result(m, db, sid, now, step_id,
                                                               form, "ok"))
           /\ ( /\ ~is_session_expired(Some(m[sid]), now)
                /\ step_id \in 1..Min(m[sid].current_step, NUM_RECIPES_PER_PARTICIPANT) ) =>
                /\ bad.memory[sid].responses[RecipeEvalKey(step_id)].healthiness_rating
                     = form.healthiness_rating
                /\ bad.memory[sid].current_step = Max(m[sid].current_step, step_id + 1)
                /\ bad.response.status = 303
      /\ \A form \in ValidPostSurveyForms :
           AsOnSuccess(submit_post_survey_result(m, db, sid, now, form, io),
                       submit_post_survey_result(m, db, sid, now, form, "ok"))
      /\ AsOnSuccess(debriefing_result(m, db, sid, now, io),
                     debriefing_result(m, db, sid, now, "ok"))

\* C22 witness: every write of the session failed (the database has no row
\* of it), and the session holds the payload of the first evaluation and
\* went on to the second
FailedWriteSurvived ==
  \E sid \in DOMAIN participants[1] :
    LET p == participants[1][sid] IN
    /\ "recipe_eval_1" \in DOMAIN p.responses
    /\ p.current_step >= 2
    /\ sid \notin DOMAIN db.participants
    /\ db.recipe_evaluations = << >>

(***************************************************************************)
(* Sessions.                                                               *)
(***************************************************************************)
\* C23: every started session gets an id that no other session has, and
\* starting a session leaves the records of the others alone: a POST /start
\* adds a record under an id the worker's dict did not hold, and every
\* record it held is unchanged.
SessionIdsUnique ==
  [][started' = started + 1 =>
       \A w \in Workers :
         participants'[w] # participants[w] =>
           /\ \E sid \in DOMAIN participants'[w] : sid \notin DOMAIN participants[w]
           /\ \A sid \in DOMAIN participants[w] :
                /\ sid \in DOMAIN participants'[w]
                /\ participants'[w][sid] = participants[w][sid]]_vars

\* the sessions worker w holds no record of and the database has a row of
OnlyInDatabase(w) == (DOMAIN db.participants) \ (DOMAIN participants[w])

\* the seconds since the last save of session sid
SinceLastSave(sid) == now - db.participants[sid].last_activity_at[1]

\* C24 (as the code has it): a session absent from a worker's memory that
\* has a database row is reconstructed only if the row's last_activity_at
\* is at most 60 minutes old; then the record gets last_activity = now and
\* is cached.  If the row's last_activity_at is older, the rebuilt record
\* is found expired before it is refreshed: the request has no session,
\* nothing is cached and the row is left as it is.
ReconstructedUnlessStale ==
  \A w \in Workers : \A sid \in OnlyInDatabase(w) :
    LET s == get_participant_from_session(participants[w], db, sid, now) IN
    IF SinceLastSave(sid) > SESSION_TIMEOUT_MINUTES * 60
    THEN /\ s.participant = None
         /\ s.memory = participants[w]
    ELSE /\ s.participant # None
         /\ s.participant[1].last_activity = Some(now)
         /\ s.participant[1].current_step = db.participants[sid].current_step
         /\ sid \in DOMAIN s.memory
         /\ s.memory[sid] = s.participant[1]
         /\ ~is_session_expired(s.participant, now)

\* C24 witness: a worker holds no record of a session whose row was saved
\* more than 60 minutes ago
StaleRowElsewhere ==
  \E w \in Workers : \E sid \in OnlyInDatabase(w) :
    /\ SinceLastSave(sid) > SESSION_TIMEOUT_MINUTES * 60
    /\ db.participants[sid].current_step >= 1

\* C24 (as the specification has it): the session is reconstructed with a
\* fresh last_activity whatever the age of the stored last_activity_at.
ReconstructedWhateverTheAge ==
  \A w \in Workers : \A sid \in OnlyInDatabase(w) :
    LET s == get_participant_from_session(participants[w], db, sid, now) IN
    /\ s.participant # None
    /\ s.participant[1].last_activity = Some(now)

\* the outcomes of the requests of session sid that step validation of
\* worker w has to reject: the session is resolved and the step of the
\* request is beyond its current_step
RejectedByValidation(w, sid) ==
  { r \in StepOutcomes(participants[w], db, sid, now) :
      /\ ~is_session_expired(Some(participants[w][sid]), now)
      /\ r.step > participants[w][sid].current_step }

\* C25: a request rejected by step validation stores nothing: the
\* session's current_step, responses and completed and the database are
\* the same after it as before, for every rejected view and submission;
\* so it leaves no response for the step it asked for, in memory or in the
\* database, that was not there.
RejectedStoresNothing ==
  \A w \in Workers : \A sid \in DOMAIN participants[w] :
    LET p == participants[w][sid] IN
    \A r \in RejectedByValidation(w, sid) :
      LET q == r.out.memory[sid] IN
      /\ ~validate_step_access(Some(Touched(p, now)), r.step)
      /\ r.out.response.status = 303
      /\ q.current_step = p.current_step
      /\ q.responses = p.responses
      /\ q.completed = p.completed
      /\ r.out.db = db
      /\ DOMAIN r.out.memory = DOMAIN participants[w]
      /\ r.step \in AnswerableSteps =>
           /\ StepKey(r.step) \in DOMAIN q.responses
                <=> StepKey(r.step) \in DOMAIN p.responses
           /\ DbAnswers(r.out.db, sid, r.step) = DbAnswers(db, sid, r.step)

\* C25 witness: a session that has answered the first evaluation and not
\* the second, for which the requests of the steps from 3 on are rejected
RejectedRequestsPossible ==
  \E sid \in DOMAIN participants[1] :
    /\ participants[1][sid].current_step = 2
    /\ "recipe_eval_2" \notin DOMAIN participants[1][sid].responses
    /\ \E r \in RejectedByValidation(1, sid) : r.submit /\ r.step = 6
    /\ \E r \in RejectedByValidation(1, sid) : ~r.submit /\ r.step = 7


\* the GET route a redirect target is dispatched to, and what its handler
\* answers
get_page(memory, d, sid, t, url) ==
  CASE url = "/demographics" -> demographics_form_result(memory, d, sid, t)
    [] url = "/recipe_eval_1" -> recipe_evaluation_result(memory, d, sid, t, 1)
    [] url = "/recipe_eval_2" -> recipe_evaluation_result(memory, d, sid, t, 2)
    [] url = "/recipe_eval_3" -> recipe_evaluation_result(memory, d, sid, t, 3)
    [] url = "/recipe_eval_4" -> recipe_evaluation_result(memory, d, sid, t, 4)
    [] url = "/recipe_eval_5" -> recipe_evaluation_result(memory, d, sid, t, 5)
    [] url = "/post_survey" -> post_survey_form_result(memory, d, sid, t)
    [] url = "/debriefing" -> debriefing_result(memory, d, sid, t, "ok")
    [] OTHER -> Outcome(memory, d, TemplateResponse("index.html"))

\* C26: whenever step validation rejects a request of a session, the
\* redirect target is a page that session may access: the GET of the target
\* renders a page, so following the redirect ends after one hop.
RedirectTargetAccessible ==
  \A w \in Workers : \A sid \in DOMAIN participants[w] :
    \A r \in RejectedByValidation(w, sid) :
      /\ r.out.response.status = 303
      /\ get_page(r.out.memory, r.out.db, sid, now,
                  r.out.response.body).response.status = 200


\* C27: in every state, a session whose current_step is n has a stored
\* response for every answerable step with index below n, and a completed
\* session has one for each of the seven answerable steps.
NoStepSkipped ==
  \A w \in Workers : \A sid \in DOMAIN participants[w] :
    LET p == participants[w][sid] IN
    /\ \A s \in AnswerableSteps :
         s < p.current_step => StepKey(s) \in DOMAIN p.responses
    /\ p.completed =>
         \A s \in AnswerableSteps : StepKey(s) \in DOMAIN p.responses


\* C27 witness: a completed session at the terminal step that holds a
\* response for each of the seven answerable steps
AllSevenAnswered ==
  \E sid \in DOMAIN participants[1] :
    /\ participants[1][sid].completed
    /\ participants[1][sid].current_step = 7
    /\ \A s \in AnswerableSteps : StepKey(s) \in DOMAIN participants[1][sid].responses


\* C28: GET /complete answers a session that is not expired with the
\* redirect to the Prolific completion URL exactly when its completed flag
\* is set, and otherwise with the redirect to the route of its current
\* step; a session is never completed before its post-survey submission was
\* accepted, that is stored with current_step past the post-survey.
CompletionOnlyWhenCompleted ==
  \A w \in Workers : \A sid \in DOMAIN participants[w] :
    LET p == participants[w][sid] IN
    /\ p.completed => "post_survey" \in DOMAIN p.responses
    /\ ~is_session_expired(Some(p), now) =>
         \A out \in CompleteOutcomes(participants[w], db, sid, now) :
           /\ out.response.status = 303
           /\ out.response.body = PROLIFIC_COMPLETION_URL <=> p.completed
           /\ ~p.completed => out.response.body = STEP_ROUTES[p.current_step]
           /\ out.memory[sid].completed = p.completed
           /\ out.db = db

\* C28 witness: a completed session that GET /complete sends to Prolific,
\* with its post-survey stored
SentToProlific ==
  \E sid \in DOMAIN participants[1] :
    /\ participants[1][sid].completed
    /\ "post_survey" \in DOMAIN participants[1][sid].responses
    /\ complete_study_result(participants[1], db, sid, now).response
         = RedirectResponse(PROLIFIC_COMPLETION_URL)


\* C29: in every state, and after every request a session can make in it,
\* current_step is in 0..7, an index of REQUIRED_STEPS and a key of
\* STEP_ROUTES, in memory and in the database row; GET /complete and the
\* redirect of a rejected request never look up a step out of range.
CurrentStepInRange ==
  /\ \A sid \in DOMAIN db.participants :
       db.participants[sid].current_step \in 0..7
  /\ \A w \in Workers : \A sid \in DOMAIN participants[w] :
       LET p == participants[w][sid] IN
       /\ p.current_step \in 0..7
       /\ p.current_step + 1 \in DOMAIN REQUIRED_STEPS
       /\ p.current_step \in DOMAIN STEP_ROUTES
       /\ \A r \in StepOutcomes(participants[w], db, sid, now) :
            /\ sid \in DOMAIN r.out.memory => r.out.memory[sid].current_step \in 0..7
            /\ sid \in DOMAIN r.out.db.participants =>
                 r.out.db.participants[sid].current_step \in 0..7
       /\ \A out \in CompleteOutcomes(participants[w], db, sid, now) :
            out.response.status = 303

\* C29 witness: a session at the last index, 7, held in memory and saved,
\* whose GET /complete looks up REQUIRED_STEPS[7]
LastStepReached ==
  \E sid \in DOMAIN participants[1] :
    /\ participants[1][sid].current_step = 7
    /\ ~participants[1][sid].completed
    /\ sid \in DOMAIN db.participants
    /\ db.participants[sid].current_step = 7
    /\ complete_study_result(participants[1], db, sid, now).response
         = RedirectResponse("/debriefing")


\* C30: every request that resolves a session sets its last_activity to the
\* current time, views and rejected requests included; and a session is
\* found expired only if more than 60 minutes have passed since its last
\* request: no record of it, of any worker, has a last_activity (the time
\* of a request that resolved it) within the last 60 minutes.
ExpiresOnlyAfterSilence ==
  \A sid \in Issued : \A w \in Workers :
    /\ (sid \in DOMAIN participants[w]
        /\ ~is_session_expired(Some(participants[w][sid]), now)) =>
         \A r \in StepOutcomes(participants[w], db, sid, now)
                    \cup { [out |-> o] : o \in CompleteOutcomes(participants[w], db, sid, now) } :
           r.out.memory[sid].last_activity = Some(now)
    /\ FoundExpired(w, sid) =>
         \A v \in Workers :
           sid \in DOMAIN participants[v] =>
             now - participants[v][sid].last_activity[1] > SESSION_TIMEOUT_MINUTES * 60


\* C31: whenever a recipe-evaluation view or submission for step k in 1..5
\* passes step validation, selected_recipes of the participant resolved for
\* the request has an entry for k, so the request is not answered with an
\* unhandled error; for records created by a start and for records rebuilt
\* from the database alike.
SelectedRecipeForAdmittedStep ==
  \A w \in Workers : \A sid \in Issued :
    LET s == get_participant_from_session(participants[w], db, sid, now) IN
    s.participant # None =>
      \A k \in 1..NUM_RECIPES_PER_PARTICIPANT :
        validate_step_access(s.participant, k) =>
          /\ Len(s.participant[1].selected_recipes) >= k
          /\ recipe_evaluation_result(participants[w], db, sid, now, k).response.status
               # 500
          /\ \A form \in EvalForms :
               submit_recipe_evaluation_result(participants[w], db, sid, now, k, form,
                                               "ok").response.status # 500


\* the record a worker that holds no record of session sid rebuilds from
\* database d at time t: None or Some(p)
Reconstructed(d, sid, t) ==
  get_participant_from_session(EmptyDict, d, sid, t).participant

\* C32: persisting a session record and then reconstructing it from the
\* database, in a process whose memory does not hold it, gives a record
\* with the same current_step, completed flag, selected recipes and step
\* responses, the attention-check answers included, as the one persisted.
PersistThenReconstruct ==
  \A w \in Workers : \A sid \in DOMAIN participants[w] :
    LET p == participants[w][sid]
        saved == save_participant_responses(p, db, now, "ok")
        q == Reconstructed(saved, sid, now)
    IN /\ q # None
       /\ q[1].current_step = p.current_step
       /\ q[1].completed = p.completed
       /\ q[1].selected_recipes = p.selected_recipes
       /\ \A s \in AnswerableSteps :
            StepKey(s) \in DOMAIN p.responses =>
              /\ StepKey(s) \in DOMAIN q[1].responses
              /\ q[1].responses[StepKey(s)] = p.responses[StepKey(s)]


\* several worker processes and one participant of a Prolific study
PanelWorkers ==
  [SeveralProcesses EXCEPT !.starts = { f \in StartForms : f.prolific_pid # None },
                           !.clock = {0, 1}]

NextPanelWorkers == Step(PanelWorkers)

SpecPanelWorkers == Init /\ [][NextPanelWorkers]_vars

\* C33: once the row of a participant is in the database with a Prolific
\* id, every later save keeps that id in the row, saves of a record rebuilt
\* from the database included, so that check_prolific_duplicate goes on
\* enumerating the session.
ProlificIdKept ==
  [][\A sid \in DOMAIN db.participants :
       db.participants[sid].prolific_pid # None =>
         /\ sid \in DOMAIN db'.participants
         /\ db'.participants[sid].prolific_pid = db.participants[sid].prolific_pid]_vars


\* the server process w is started again: app/main.py is imported anew,
\* its participants dict is empty, and the import of app/db.py removes the
\* database file and creates the empty tables
restart_process(E) ==
  /\ \E w \in E.workers : participants' = [participants EXCEPT ![w] = EmptyDict]
  /\ db' = EmptyDb
  /\ UNCHANGED << now, started, viewed, rerouted >>

\* one server process that may be restarted between two requests
RestartedProcess == [SeveralProcesses EXCEPT !.workers = {1}]

NextRestarts == Step(RestartedProcess) \/ restart_process(RestartedProcess)

SpecRestarts == Init /\ [][NextRestarts]_vars

\* C34: what was persisted is still in the database after the server
\* process restarts: every participants row and its evaluation and
\* post-survey rows are as before the restart, and a session whose record
\* the restart removed from memory is reconstructed from its row by the
\* next request, unless the row has expired.
DataSurvivesRestart ==
  [][restart_process(RestartedProcess) =>
       \A sid \in DOMAIN db.participants :
         /\ get_participant_data(db', sid) = get_participant_data(db, sid)
         /\ SinceLastSave(sid) <= SESSION_TIMEOUT_MINUTES * 60 =>
              Reconstructed(db', sid, now) # None]_vars


\* C35: with several worker processes sharing the database, whichever
\* worker serves each request of a session, the current_step in its
\* participants row never decreases, and the answers the database holds
\* for a step change only by a submission of that step: no save of a
\* worker's stale copy lowers the one or rewrites the other.
PersistedProgressKept ==
  [][\A sid \in DOMAIN db.participants :
       /\ sid \in DOMAIN db'.participants
       /\ db'.participants[sid].current_step >= db.participants[sid].current_step
       /\ \A s \in AnswerableSteps :
            DbAnswers(db', sid, s) # DbAnswers(db, sid, s) =>
              \E w \in Workers : SubmissionServed(w, sid, s)]_vars


(***************************************************************************)
(* app/db.py: save_participant as a transaction.                          *)
(***************************************************************************)
\* the participant_dict save_participant_responses hands to save_participant
participant_dict(p, t) ==
  [id |-> p.id, start_time |-> p.start_time, completed |-> p.completed,
   current_step |-> p.current_step, step_completed_at |-> Some(t),
   last_activity_at |-> p.last_activity, responses |-> p.responses,
   selected_recipes |-> p.selected_recipes]

\* the writes of save_participant in the order it makes them: 1 the
\* participants row, 2..6 the rows of evaluations 1..5, 7 the post_survey
\* row; 0 stands for no failure
FailPoints == 0..7

\* whether save_participant executes write k for this participant_data
Executes(participant_data, k) ==
  \/ k = 1
  \/ k \in 2..6 /\ RecipeEvalKey(k - 1) \in DOMAIN participant_data.responses
  \/ k = 7 /\ "post_survey" \in DOMAIN participant_data.responses

\* the tables as the connection of save_participant sees them after its
\* first n writes, before any commit
PartialSave(d, participant_data, t, n) ==
  LET responses == participant_data.responses
      written == { key \in DOMAIN responses :
                     \A i \in 1..5 : key = RecipeEvalKey(i) => i + 1 <= n }
  IN [participants |->
        IF n >= 1
        THEN Put(d.participants, participant_data.id,
                 ParticipantRow(participant_data, t))
        ELSE d.participants,
      recipe_evaluations |->
        SaveEvaluations(d.recipe_evaluations, participant_data.id,
                        [key \in written |-> responses[key]], 1),
      post_survey |->
        IF n >= 7
        THEN SavePostSurvey(d.post_survey, participant_data.id, responses)
        ELSE d.post_survey]

\* a save_participant whose writes are committed one by one
save_participant_transaction_autocommit(d, participant_data, t, fail_at) ==
  IF fail_at # 0 /\ Executes(participant_data, fail_at)
  THEN [db |-> PartialSave(d, participant_data, t, fail_at - 1), result |-> FALSE]
  ELSE [db |-> PartialSave(d, participant_data, t, 7), result |-> TRUE]

\* save_participant on database d at time t when its write fail_at raises:
\* the database afterwards and the value returned.  The writes are made on
\* one connection and committed once, after the last; the except branch
\* rolls back and returns False.
save_participant_transaction(d, participant_data, t, fail_at) ==
  IF fail_at # 0 /\ Executes(participant_data, fail_at)
  THEN [db |-> d, result |-> FALSE]
  ELSE [db |-> PartialSave(d, participant_data, t, 7), result |-> TRUE]

\* C36: save_participant is all-or-nothing.  For the record of every
\* session and every write of the save that may fail: if a write fails, the
\* call returns False and the participants, recipe_evaluations and
\* post_survey tables are as before the call; it returns True only when no
\* write failed, and then the three parts are committed together.
SaveAllOrNothing ==
  \A w \in Workers : \A sid \in DOMAIN participants[w] :
    LET p == participants[w][sid]
        participant_data == participant_dict(p, now)
    IN /\ save_participant_responses(p, db, now, "ok")
            = save_participant_transaction(db, participant_data, now, 0).db
       /\ \A fail_at \in FailPoints :
            LET r == save_participant_transaction(db, participant_data, now, fail_at) IN
            /\ (fail_at # 0 /\ Executes(participant_data, fail_at)) => ~r.result
            /\ ~r.result =>
                 /\ r.db.participants = db.participants
                 /\ r.db.recipe_evaluations = db.recipe_evaluations
                 /\ r.db.post_survey = db.post_survey
                 /\ r.db = save_participant_responses(p, db, now, "db_error")
            /\ r.result =>
                 /\ r.db = save_participant(db, participant_data, now)
                 /\ sid \in DOMAIN r.db.participants
                 /\ \A i \in 1..5 :
                      RecipeEvalKey(i) \in DOMAIN p.responses =>
                        DbAnswers(r.db, sid, i) # << >>

\* C36 witness: a session with two evaluations of which the database holds
\* none, so that a save whose third write (the second evaluation) fails
\* has written the participants row and the first evaluation before it is
\* rolled back
SaveFailsHalfway ==
  \E sid \in DOMAIN participants[1] :
    LET participant_data == participant_dict(participants[1][sid], now) IN
    /\ Executes(participant_data, 3)
    /\ DbAnswers(db, sid, 1) = << >>
    /\ PartialSave(db, participant_data, now, 2) # db
    /\ ~save_participant_transaction(db, participant_data, now, 3).result

====
